---- MODULE Spec2Model ----
(***************************************************************************)
(* PetalFlow: a model of the numerical core (bit mask, dropout sampling,   *)
(* weights update, petal forward, dataset shuffle, flower training loop).  *)
(*                                                                         *)
(* Each component has its own specification over the same variables; the   *)
(* variables of the other components stay parked at their initial values.  *)
(*                                                                         *)
(* float values are modelled by integers.  A dropout ratio is the pair     *)
(* <<num, den>> of the rational num/den.                                   *)
(***************************************************************************)
EXTENDS Integers, Sequences, FiniteSets, TLC

\* ------------------------------------------------------------------ errors.h
ERROR_NONE == 0
ERROR_MALLOC == 1
ERROR_PETAL_WRONG_TYPE == 2
ERROR_PETAL_WRONG_ACTIVATION == 4
ERROR_BITMAP_ACCESS_OUT_OF_BOUNDS == 10
ERROR_OPTIMIZER_WRONG_TYPE == 11

\* ------------------------------------------------------------------ bounds
\* longest one-word mask, in bits (the model adds one two-word length, TwoWordLen)
MaxLen == 4
\* longest weights tensor (length_total)
MaxWLen == 2
\* largest magnitude a gradient accumulator entry is driven to
MaxGrad == 1
\* weights_update calls per behaviour
MaxUpdates == 2
\* longest petal output (and input) in the petal forward model
MaxPetalLen == 2
\* largest train_length
MaxTrain == 3
\* most floats in one input vector or one target vector of the dataset
MaxShape == 2
\* largest number of epochs
MaxEpochs == 2
\* the training loop: largest train_length, batch_size, petals_length and
\* validation_length
MaxSamples == 5
MaxBatch == 4
MaxPetals == 3
MaxValidation == 1
\* the number of values of the loop's unsigned counters: uint32_t has 2^32, the
\* model's word has WordRange, so that a batch bound wraps at lengths the model
\* reaches (every length and size of the model is below WordRange)
WordRange == 8
\* calls made on the petal and the loss of SpecBackward
MaxCalls == 2
\* words drawn from a generator state after a regeneration; the seeds are
\* 0 .. MaxSeed
MaxPos == 15
MaxSeed == 1
\* elements of a layer check_activation is run on, beside the suite's own
MaxLayer == 2
\* flower_train calls made on one flower, the samples of a training set,
\* the epochs of a call
MaxTrainCalls == 2
MaxSessionTrain == 2
SessionEpochs == 2
\* length_total of the records weights_init fills
MaxInitLen == 3
\* rows, cols and depth of a shape
MaxDim == 2
\* output length of the softmax petal
MaxSoftmax == 3

VARIABLES
    \* bit_array_s (bit_array.h) and the words of its backing array
    ba_length,      \* bit_array->length, in bits
    ba_words,       \* bit_array->_length_in_types: words allocated for data
    ba_data,        \* bit_array->data: word index -> set of the bit positions that are 1
    ba_error,       \* bit_array->error_code
    ba_overrun,     \* words written past the end of data so far (heap overflow)
    ba_op,          \* the last bit_array / dropout call: [name, index]
    ba_ret,         \* what the last bit_array_get_bit returned
    \* dropout_generate_indices in progress
    dr_pc,          \* "idle" | "loop"
    dr_ratio,       \* dropout_ratio
    dr_target,      \* indices_n_to_drop_or_keep
    dr_counter,     \* set_counter
    \* weights_s (weights.h): one weights record, and the last call made on it
    wt,             \* [trainable, length_total, weights, gradients, moments,
                    \*  velocities_or_cache, _learning_step]
    wt_last,        \* [op, ret, opt, had_grads]: the last call and what it returned
    wt_updates,     \* weights_update calls so far
    \* petal_s (petal.h): one petal; its bit_array is the mask above
    pe,             \* [petal_type, length, weights, bias_weights, activation,
                    \*  dropout, bit_array, output, error_code]
    pe_last,        \* [op, training, input, predicted, error_code]: the last call
                    \* made on the petal or its mask, what the last
                    \* flower_forward returned, the error_code of that flower
    \* shuffle_2d (shuffle.c) on the training set flower_train passes to it
    sh,             \* [array_1, array_2, sparse, array_length, element_size_1,
                    \*  element_size_2]; a row maps byte offset -> the sample the
                    \*  byte came from
    sh_pc,          \* "idle" | "loop" | "returned_true" | "returned_false" | "crash"
    sh_i,           \* the loop index i
    sh_calls,       \* shuffle_2d calls begun so far (one per epoch)
    \* flower_train (flower.c) on one flower
    tr_cfg,         \* the arguments: [petals_length, train_length, batch_size,
                    \*  validation_length, epochs]
    tr_flower,      \* flower_s and its petals: [petals_length, petals, error_code,
                    \*  _loss, evaluated, predicted]
    tr_pc,          \* where flower_train is
    tr_loop,        \* its locals: the loop indices and the batch bounds, and
                    \* what the epoch's shuffle_2d call returned
    tr_trace,       \* the calls made for the current batch, in order
    tr_trained,     \* sample index -> training passes over it in the current epoch
    tr_call,        \* the arguments of the last petal_backward call
    \* petal_backward (petal.c) and loss_backward (loss.c) on one petal of given
    \* input and output lengths, without dropout, and one loss_s
    bk_petal,       \* [petal_type, first, input_length, output_length, weights,
                    \*  bias_weights, activation, output, error_on_input, error_code]
    bk_loss,        \* [type, length, loss, _derivatives_temp_1, _derivatives_temp_2]
    bk_last,         \* [op, ret, past, calls, input]: the last call, the code the
                    \* last loss call returned, the elements the last call
                    \* addressed past the end of error_on_input, the calls so
                    \* far, the input of the last petal_forward
    \* random.c
    rk_state,        \* [key, regenerated, pos]: the rk_state_s the calls are made on
    rk_owner,        \* "global" when that is rk_state_global, reached through
                     \* rk_seed_, rk_random_, rk_double_ and rk_float_; "user"
                     \* when the caller declared it and passes its address
    rk_seeded,       \* the seed of the last rk_seed on it, <<>> while
                     \* rk_state_global is as the loader left it
    rk_last,          \* [op, value]: the last call and what it returned
    \* check_activation of the test suite
    ca_activation,   \* the activation_s under test, _derivatives_temp included
    ca_data,         \* test_data
    ca_forward,      \* test_temp_forward
    ca_temp,         \* test_temp
    ca_pc,            \* the statement check_activation has reached
    \* flower_train and flower_predict calls made one after another on one
    \* flower of two dense petals
    fs_flower,       \* flower_s, its loss_s and its petals: [petals_length, petals,
                     \*  error_code, _loss, evaluated, predicted]
    fs_args,         \* the arguments of the flower_train call in progress, or of
                     \* the last one
    fs_pc,           \* "idle" between calls, else where flower_train is
    fs_loop,         \* the locals of flower_train, output_temp included
    fs_last,         \* [op, loss_type, null_output_temp]: the last step, the type
                     \* of the loss the last loss_forward computed, whether
                     \* labels_to_petal_output was handed a NULL output_temp
    fs_calls,         \* flower_train calls begun so far
    \* weights_init calls made on one weights_s
    wi,              \* weights_s: [initializer, length_total, center, deviation,
                     \*  weights]
    wi_last,          \* [op, ret, base]: the last step, the code it returned, the
                     \* buffer as the base initializer left it
    \* petal_forward calls made on one petal of a three-dimensional shape
    nf_petal,        \* petal_s: [petal_type, rows, cols, depth, length, center,
                     \*  deviation, output, error_code]
    nf_last,          \* [op, written]: the last step and the indices of output
                     \* the last petal_forward stored to
    \* petal_forward and petal_backward calls made on one Dense-1D petal with
    \* softmax
    sx_petal,        \* petal_s: [length, output, activation, error_code]; output
                     \* has length * length elements
    sx_last          \* [op, jacobian, error_right, read_after_write]: the last
                     \* step, the buffer as activation_backward left it, the
                     \* upstream error, the reads of an element of the
                     \* Jacobian made after a store to it

maskVars == <<ba_length, ba_words, ba_data, ba_error, ba_overrun, ba_op, ba_ret,
              dr_pc, dr_ratio, dr_target, dr_counter>>

weightsVars == <<wt, wt_last, wt_updates>>

petalVars == <<pe, pe_last>>

shuffleVars == <<sh, sh_pc, sh_i, sh_calls>>

trainVars == <<tr_cfg, tr_flower, tr_pc, tr_loop, tr_trace, tr_trained, tr_call>>

backwardVars == <<bk_petal, bk_loss, bk_last>>

randomVars == <<rk_state, rk_owner, rk_seeded, rk_last>>

checkVars == <<ca_activation, ca_data, ca_forward, ca_temp, ca_pc>>

sessionVars == <<fs_flower, fs_args, fs_pc, fs_loop, fs_last, fs_calls>>

initVars == <<wi, wi_last>>

layerVars == <<nf_petal, nf_last>>

softmaxVars == <<sx_petal, sx_last>>

vars == <<maskVars, weightsVars, petalVars, shuffleVars, trainVars, backwardVars, randomVars, checkVars, sessionVars, initVars, layerVars, softmaxVars>>

\* what a step of one component leaves alone
othersOfMask == <<weightsVars, petalVars, shuffleVars, trainVars, backwardVars, randomVars, checkVars, sessionVars, initVars, layerVars, softmaxVars>>
othersOfWeights == <<maskVars, petalVars, shuffleVars, trainVars, backwardVars, randomVars, checkVars, sessionVars, initVars, layerVars, softmaxVars>>
othersOfPetal == <<weightsVars, shuffleVars, trainVars, backwardVars, randomVars, checkVars, sessionVars, initVars, layerVars, softmaxVars>>
othersOfShuffle == <<maskVars, weightsVars, petalVars, trainVars, backwardVars, randomVars, checkVars, sessionVars, initVars, layerVars, softmaxVars>>
othersOfTrain == <<maskVars, weightsVars, petalVars, shuffleVars, backwardVars, randomVars, checkVars, sessionVars, initVars, layerVars, softmaxVars>>
othersOfBackward == <<maskVars, weightsVars, petalVars, shuffleVars, trainVars, randomVars, checkVars, sessionVars, initVars, layerVars, softmaxVars>>
othersOfRandom == <<maskVars, weightsVars, petalVars, shuffleVars, trainVars, backwardVars, checkVars, sessionVars, initVars, layerVars, softmaxVars>>
othersOfCheck == <<maskVars, weightsVars, petalVars, shuffleVars, trainVars, backwardVars, randomVars, sessionVars, initVars, layerVars, softmaxVars>>
othersOfSession == <<maskVars, weightsVars, petalVars, shuffleVars, trainVars, backwardVars, randomVars, checkVars, initVars, layerVars, softmaxVars>>
othersOfInit == <<maskVars, weightsVars, petalVars, shuffleVars, trainVars, backwardVars, randomVars, checkVars, sessionVars, layerVars, softmaxVars>>
othersOfLayer == <<maskVars, weightsVars, petalVars, shuffleVars, trainVars, backwardVars, randomVars, checkVars, sessionVars, initVars, softmaxVars>>
othersOfSoftmax == <<maskVars, weightsVars, petalVars, shuffleVars, trainVars, backwardVars, randomVars, checkVars, sessionVars, initVars, layerVars>>

\* ------------------------------------------------------------------ helpers
Min(a, b) == IF a < b THEN a ELSE b
Max(a, b) == IF a > b THEN a ELSE b

\* ------------------------------------------------------------------ bit_array
BIT_ARRAY_BITS == 8

WordBits == 0 .. (BIT_ARRAY_BITS - 1)

\* (size_bits + (BIT_ARRAY_BITS - 1U)) / BIT_ARRAY_BITS
LengthInTypes(size_bits) == (size_bits + (BIT_ARRAY_BITS - 1)) \div BIT_ARRAY_BITS

\* the value of bit `index` of a backing array
BitOf(data, index) ==
    (index \div BIT_ARRAY_BITS) \in DOMAIN data
        /\ (index % BIT_ARRAY_BITS) \in data[index \div BIT_ARRAY_BITS]

\* how many of the first `length` bits are 1
CountSet(data, length) == Cardinality({i \in 0 .. (length - 1) : BitOf(data, i)})

AllZero(data) == \A w \in DOMAIN data : data[w] = {}

\* bit_array_init(size_bits): the struct after a successful construction, and
\* after calloc of data failed (length stays 0 from calloc of the struct)
BitArrayInit(size_bits, data_ok) ==
    IF data_ok
    THEN [length |-> size_bits, words |-> LengthInTypes(size_bits),
          data |-> [w \in 0 .. (LengthInTypes(size_bits) - 1) |-> {}],
          error |-> ERROR_NONE]
    ELSE [length |-> 0, words |-> 0, data |-> [w \in {} |-> {}], error |-> ERROR_MALLOC]

\* data[index / BIT_ARRAY_BITS] |= 1 << index % BIT_ARRAY_BITS
SetBitWord(data, index) ==
    [data EXCEPT ![index \div BIT_ARRAY_BITS] = @ \cup {index % BIT_ARRAY_BITS}]

\* data[index / BIT_ARRAY_BITS] &= ~(1 << index % BIT_ARRAY_BITS)
ClearBitWord(data, index) ==
    [data EXCEPT ![index \div BIT_ARRAY_BITS] = @ \ {index % BIT_ARRAY_BITS}]

\* words a write to word index w lands past the end of the backing array
Overrun(w, words) == IF w >= words THEN (w + 1) - words ELSE 0

\* mutant of BoundsError: the bounds check lets index = length through
BoundsErrorOffByOne(index, length, error) ==
    IF index > length THEN ERROR_BITMAP_ACCESS_OUT_OF_BOUNDS ELSE error

\* if (index >= bit_array->length) { error_code = OUT_OF_BOUNDS; return; }
BoundsError(index, length, error) ==
    IF index >= length THEN ERROR_BITMAP_ACCESS_OUT_OF_BOUNDS ELSE error

DropoutIdle == dr_pc = "idle"

\* the locals of a dropout_generate_indices call that has returned are gone
DropoutLocalsGone == dr_pc' = "idle" /\ dr_ratio' = <<0, 1>> /\ dr_target' = 0 /\ dr_counter' = 0

bit_array_set_bit(index) ==
    /\ DropoutIdle
    /\ ba_error' = BoundsError(index, ba_length, ba_error)
    /\ ba_data' = IF index >= ba_length THEN ba_data ELSE SetBitWord(ba_data, index)
    /\ ba_overrun' = IF index >= ba_length THEN ba_overrun
                     ELSE Max(ba_overrun, Overrun(index \div BIT_ARRAY_BITS, ba_words))
    /\ ba_op' = [name |-> "set_bit", index |-> index]
    /\ ba_ret' = FALSE
    /\ DropoutLocalsGone
    /\ UNCHANGED <<ba_length, ba_words>>

bit_array_clear_bit(index) ==
    /\ DropoutIdle
    /\ ba_error' = BoundsError(index, ba_length, ba_error)
    /\ ba_data' = IF index >= ba_length THEN ba_data ELSE ClearBitWord(ba_data, index)
    /\ ba_overrun' = IF index >= ba_length THEN ba_overrun
                     ELSE Max(ba_overrun, Overrun(index \div BIT_ARRAY_BITS, ba_words))
    /\ ba_op' = [name |-> "clear_bit", index |-> index]
    /\ ba_ret' = FALSE
    /\ DropoutLocalsGone
    /\ UNCHANGED <<ba_length, ba_words>>

\* what bit_array_get_bit returns
GetBit(data, length, index) == IF index >= length THEN FALSE ELSE BitOf(data, index)

bit_array_get_bit(index) ==
    /\ DropoutIdle
    /\ ba_error' = BoundsError(index, ba_length, ba_error)
    /\ ba_ret' = GetBit(ba_data, ba_length, index)
    /\ ba_overrun' = IF index >= ba_length THEN ba_overrun
                     ELSE Max(ba_overrun, Overrun(index \div BIT_ARRAY_BITS, ba_words))
    /\ ba_op' = [name |-> "get_bit", index |-> index]
    /\ DropoutLocalsGone
    /\ UNCHANGED <<ba_length, ba_words, ba_data>>

\* for (i = 0; i < _length_in_types; ++i) data[i] = ~data[i]
NotWords(data) == [w \in DOMAIN data |-> WordBits \ data[w]]

bit_array_not ==
    /\ DropoutIdle
    /\ ba_data' = NotWords(ba_data)
    /\ ba_op' = [name |-> "not", index |-> 0]
    /\ ba_ret' = FALSE
    /\ DropoutLocalsGone
    /\ UNCHANGED <<ba_length, ba_words, ba_error, ba_overrun>>

\* memset(data, 0, length * sizeof(BIT_ARRAY_TYPE)): the number of words it writes
ClearWordsWritten(length) == length

\* the words of the backing array after the memset: those it reaches are zero
ClearWords(data, written) == [w \in DOMAIN data |-> IF w < written THEN {} ELSE data[w]]

bit_array_clear ==
    /\ DropoutIdle
    /\ ba_data' = ClearWords(ba_data, ClearWordsWritten(ba_length))
    /\ ba_overrun' = Max(ba_overrun,
                         IF ClearWordsWritten(ba_length) = 0 THEN 0
                         ELSE Overrun(ClearWordsWritten(ba_length) - 1, ba_words))
    /\ ba_op' = [name |-> "clear", index |-> 0]
    /\ ba_ret' = FALSE
    /\ DropoutLocalsGone
    /\ UNCHANGED <<ba_length, ba_words, ba_error>>

\* ------------------------------------------------------------------ dropout
\* dropout ratios num/den the model draws from; all are exact as float
Ratios == {<<0, 1>>, <<1, 5>>, <<1, 2>>, <<5, 8>>, <<3, 4>>, <<1, 1>>}

\* (uint32_t) ((float) length * dropout_ratio)
FloorMul(length, r) == (length * r[1]) \div r[2]

\* dropout_ratio >= 0.f && dropout_ratio <= .5f
InDropInterval(r) == r[1] >= 0 /\ 2 * r[1] <= r[2]

\* dropout_ratio <= 1.f && dropout_ratio >= .5f
InKeepInterval(r) == r[1] <= r[2] /\ 2 * r[1] >= r[2]

\* the condition under which the mask is inverted at the end of the call
InvertAtEnd(r) == InKeepInterval(r)

\* mutant of DropOrKeepCount: the count of the drop branch in both intervals
DropCountOnly(length, r) ==
    IF InDropInterval(r) \/ InKeepInterval(r) THEN FloorMul(length, r) ELSE 0

\* indices_n_to_drop_or_keep
DropOrKeepCount(length, r) ==
    IF InDropInterval(r) THEN FloorMul(length, r)
    ELSE IF InKeepInterval(r) THEN length - FloorMul(length, r)
    ELSE 0

\* for (i = 0; i < length; ++i) bit_array_set_bit(bit_array, i)
RECURSIVE SetAll(_, _, _)
SetAll(data, i, length) ==
    IF i >= length THEN data ELSE SetAll(SetBitWord(data, i), i + 1, length)

\* entry of dropout_generate_indices up to the sampling loop; the 100% branch
\* and the error return run to the end of the call.  Its callers pass a mask
\* with every word zero: petal_forward calls bit_array_clear first, test_dropout
\* passes the mask bit_array_init returned
dropout_generate_indices_begin(r) ==
    /\ DropoutIdle
    /\ AllZero(ba_data)
    /\ dr_ratio' = r
    /\ dr_target' = DropOrKeepCount(ba_length, r)
    /\ dr_counter' = 0
    /\ IF DropOrKeepCount(ba_length, r) > ba_length
       THEN /\ ba_error' = ERROR_BITMAP_ACCESS_OUT_OF_BOUNDS
            /\ ba_op' = [name |-> "dropout_generate_indices", index |-> 0]
            /\ UNCHANGED <<ba_data, dr_pc>>
       ELSE IF DropOrKeepCount(ba_length, r) = ba_length
       THEN /\ ba_data' = IF InvertAtEnd(r) THEN NotWords(SetAll(ba_data, 0, ba_length))
                          ELSE SetAll(ba_data, 0, ba_length)
            /\ ba_op' = [name |-> "dropout_generate_indices", index |-> 0]
            /\ UNCHANGED <<ba_error, dr_pc>>
       ELSE /\ dr_pc' = "loop"
            /\ ba_op' = [name |-> "dropout_begin", index |-> 0]
            /\ UNCHANGED <<ba_data, ba_error>>
    /\ ba_ret' = FALSE
    /\ UNCHANGED <<ba_length, ba_words, ba_overrun>>

\* one iteration of the sampling loop; index_to_set = rk_random_() % length
dropout_draw(index_to_set) ==
    /\ dr_pc = "loop"
    /\ dr_counter < dr_target
    /\ IF GetBit(ba_data, ba_length, index_to_set)
       THEN UNCHANGED <<ba_data, dr_counter>>
       ELSE /\ ba_data' = SetBitWord(ba_data, index_to_set)
            /\ dr_counter' = dr_counter + 1
    /\ ba_op' = [name |-> "dropout_draw", index |-> index_to_set]
    /\ UNCHANGED <<ba_length, ba_words, ba_error, ba_overrun, ba_ret,
                   dr_pc, dr_ratio, dr_target>>

\* the loop has ended: invert in keep mode, return
dropout_generate_indices_end ==
    /\ dr_pc = "loop"
    /\ dr_counter >= dr_target
    /\ ba_data' = IF InvertAtEnd(dr_ratio) THEN NotWords(ba_data) ELSE ba_data
    /\ dr_pc' = "idle"
    /\ ba_op' = [name |-> "dropout_generate_indices", index |-> 0]
    /\ UNCHANGED <<ba_length, ba_words, ba_error, ba_overrun, ba_ret,
                   dr_ratio, dr_target, dr_counter>>

\* ------------------------------------------------------------------ weights
\* optimizers.h
OPTIMIZER_SGD_MOMENTUM == 0
OPTIMIZER_RMS_PROP == 1
OPTIMIZER_ADA_GRAD == 2
OPTIMIZER_ADAM == 3
OPTIMIZER_MAX == OPTIMIZER_ADAM

\* a NULL float pointer; an allocated buffer is a function on 0 .. length - 1
NullBuf == [i \in {} |-> 0]

\* calloc(length, sizeof(float))
Calloc(length) == [i \in 0 .. (length - 1) |-> 0]

\* float arithmetic on the integer stand-ins: sqrtf and / keep the integer part;
\* x / (0 + EPSILON) is met only with x = 0
ISqrt(n) == CHOOSE k \in 0 .. n : k * k <= n /\ n < (k + 1) * (k + 1)
FDiv(a, b) == IF b = 0 THEN 0 ELSE a \div b
RECURSIVE Pow(_, _)
Pow(b, e) == IF e = 0 THEN 1 ELSE b * Pow(b, e - 1)

\* weights_check_init without its test of trainable before the calloc of
\* gradients
WeightsCheckInitAlways(trainable, length_total, center) ==
    [trainable |-> trainable, length_total |-> length_total,
     weights |-> [i \in 0 .. (length_total - 1) |-> center],
     gradients |-> Calloc(length_total),
     moments |-> NullBuf, velocities_or_cache |-> NullBuf, _learning_step |-> 0]

\* weights_check_init(weights, length_total) on a record whose weights the
\* constant initializer fills with center; gradients only when trainable
WeightsCheckInit(trainable, length_total, center) ==
    [trainable |-> trainable, length_total |-> length_total,
     weights |-> [i \in 0 .. (length_total - 1) |-> center],
     gradients |-> IF trainable THEN Calloc(length_total) ELSE NullBuf,
     moments |-> NullBuf, velocities_or_cache |-> NullBuf, _learning_step |-> 0]

\* petal_backward's accumulation into the record: gradients[i] += delta[i]
AccumulateGradients(w, delta) ==
    IF w.trainable
    THEN [w EXCEPT !.gradients = [i \in DOMAIN @ |-> @[i] + delta[i]]]
    ELSE w

\* one element of the SGD branch
SgdElement(w, o, i) ==
    IF o.momentum > 0
    THEN LET v == o.momentum * w.velocities_or_cache[i] - o.learning_rate * w.gradients[i]
         IN  [w EXCEPT !.velocities_or_cache[i] = v, !.weights[i] = @ + v]
    ELSE [w EXCEPT !.weights[i] = @ - o.learning_rate * w.gradients[i]]

\* one element of the RMSProp branch
RmsPropElement(w, o, i) ==
    LET g == w.gradients[i]
        v == o.beta_1 * w.velocities_or_cache[i] + (1 - o.beta_1) * g * g
    IN  [w EXCEPT !.velocities_or_cache[i] = v,
                  !.weights[i] = @ - FDiv(o.learning_rate, ISqrt(v)) * g]

\* one element of the AdaGrad branch
AdaGradElement(w, o, i) ==
    LET g == w.gradients[i]
        v == w.velocities_or_cache[i] + g * g
    IN  [w EXCEPT !.velocities_or_cache[i] = v,
                  !.weights[i] = @ - FDiv(o.learning_rate * g, ISqrt(v))]

\* one element of the Adam branch, the step increment at its end included
AdamElement(w, o, i) ==
    LET g == w.gradients[i]
        m == o.beta_1 * w.moments[i] + (1 - o.beta_1) * g
        v == o.beta_2 * w.velocities_or_cache[i] + (1 - o.beta_2) * g * g
        moment_hat == FDiv(m, 1 - Pow(o.beta_1, w._learning_step + 1))
        velocity_hat == FDiv(v, 1 - Pow(o.beta_2, w._learning_step + 1))
    IN  [w EXCEPT !.moments[i] = m,
                  !.velocities_or_cache[i] = v,
                  !.weights[i] = @ - FDiv(o.learning_rate * moment_hat, ISqrt(velocity_hat)),
                  !._learning_step = @ + 1]

OptimizerElement(w, o, i) ==
    IF o.type = OPTIMIZER_SGD_MOMENTUM THEN SgdElement(w, o, i)
    ELSE IF o.type = OPTIMIZER_RMS_PROP THEN RmsPropElement(w, o, i)
    ELSE IF o.type = OPTIMIZER_ADA_GRAD THEN AdaGradElement(w, o, i)
    ELSE AdamElement(w, o, i)

\* for (i = 0; i < length_total; ++i) { ... }
RECURSIVE OptimizerLoop(_, _, _)
OptimizerLoop(w, o, i) ==
    IF i >= w.length_total THEN w ELSE OptimizerLoop(OptimizerElement(w, o, i), o, i + 1)

\* mutant of ResetGradients: the memset length leaves out sizeof(float)
ResetGradientsShort(w) ==
    [w EXCEPT !.gradients = [i \in DOMAIN @ |-> IF 4 * i < w.length_total THEN 0 ELSE @[i]]]

\* memset(weights->gradients, 0, length_total * sizeof(float))
ResetGradients(w) == [w EXCEPT !.gradients = [i \in DOMAIN @ |-> 0]]

\* weights_update(weights, optimizer): <<the record after the call, the code
\* returned>>; velocities_ok / moments_ok say whether a calloc it makes succeeds
WeightsUpdate(w, o, velocities_ok, moments_ok) ==
    IF ~w.trainable THEN <<w, ERROR_NONE>>
    ELSE IF w.velocities_or_cache = NullBuf /\ ~velocities_ok THEN <<w, ERROR_MALLOC>>
    ELSE LET w1 == IF w.velocities_or_cache = NullBuf
                   THEN [w EXCEPT !.velocities_or_cache = Calloc(w.length_total)] ELSE w
         IN  IF o.type = OPTIMIZER_ADAM /\ w1.moments = NullBuf /\ ~moments_ok
             THEN <<w1, ERROR_MALLOC>>
             ELSE LET w2 == IF o.type = OPTIMIZER_ADAM /\ w1.moments = NullBuf
                            THEN [w1 EXCEPT !.moments = Calloc(w.length_total)] ELSE w1
                  IN  IF o.type > OPTIMIZER_MAX THEN <<w2, ERROR_OPTIMIZER_WRONG_TYPE>>
                      ELSE <<ResetGradients(OptimizerLoop(w2, o, 0)), ERROR_NONE>>

\* the optimizer_s records the model calls weights_update with: every type and
\* one past OPTIMIZER_MAX; learning rate 1, momentum 0 or 1, beta_1 = beta_2 = 0
Optimizers ==
    {[type |-> t, learning_rate |-> 1, momentum |-> mu, beta_1 |-> 0, beta_2 |-> 0] :
        t \in 0 .. (OPTIMIZER_MAX + 1), mu \in {0, 1}}

\* per-sample gradients petal_backward adds to the accumulator
GradDeltas(w) == [DOMAIN w.gradients -> {-1, 0, 1}]

NonZero(buf) == \E i \in DOMAIN buf : buf[i] # 0

petal_backward_accumulate(delta) ==
    /\ wt.trainable
    /\ \A i \in DOMAIN delta : wt.gradients[i] + delta[i] \in (-MaxGrad) .. MaxGrad
    /\ wt' = AccumulateGradients(wt, delta)
    /\ wt_last' = [op |-> "petal_backward", ret |-> ERROR_NONE, opt |-> wt_last.opt,
                   had_grads |-> NonZero(wt.gradients)]
    /\ UNCHANGED wt_updates

\* flower_train passes the same optimizer_s to every weights_update of a run
weights_update(o, velocities_ok, moments_ok) ==
    /\ wt_updates < MaxUpdates
    /\ wt_updates > 0 => o = wt_last.opt
    /\ wt' = WeightsUpdate(wt, o, velocities_ok, moments_ok)[1]
    /\ wt_last' = [op |-> "weights_update",
                   ret |-> WeightsUpdate(wt, o, velocities_ok, moments_ok)[2],
                   opt |-> o, had_grads |-> NonZero(wt.gradients)]
    /\ wt_updates' = wt_updates + 1

\* ------------------------------------------------------------------ petal forward
\* petal.h, activation.h
PETAL_TYPE_DIRECT == 0
PETAL_TYPE_DENSE_1D == 4
ACTIVATION_LINEAR == 0
ACTIVATION_RELU == 1

\* a NULL activation_s pointer
NoActivation == [type |-> ACTIVATION_LINEAR, linear_alpha |-> 1, linear_const |-> 0,
                 relu_leak |-> 0, present |-> FALSE, _derivatives_temp |-> FALSE]

\* the activation_s records of the model: none, f(x) = 2x + 1, ReLU without leak
Activations ==
    {NoActivation,
     [NoActivation EXCEPT !.present = TRUE, !.linear_alpha = 2, !.linear_const = 1],
     [NoActivation EXCEPT !.present = TRUE, !.type = ACTIVATION_RELU]}

\* the dropout ratios of the model's petals: 1 / (1 - dropout + EPSILON) is an
\* integer for each of them
PetalDropouts == {<<0, 1>>, <<1, 2>>, <<3, 4>>}

\* dropout_scaling = 1.f / (1.f - petal->dropout + EPSILON)
DropoutScaling(r) == r[2] \div (r[2] - r[1])

\* what dropout_generate_indices leaves in a cleared mask when its draws set
\* the indices in `chosen`
RECURSIVE SetBits(_, _)
SetBits(data, chosen) ==
    IF chosen = {} THEN data
    ELSE LET i == CHOOSE c \in chosen : TRUE
         IN  SetBits(SetBitWord(data, i), chosen \ {i})

DropoutResult(data, r, chosen) ==
    IF InvertAtEnd(r) THEN NotWords(SetBits(data, chosen)) ELSE SetBits(data, chosen)

\* the indices bit_array_get_bit(petal->bit_array, i) answers true for; none
\* when the pointer is NULL
SetIndices(bit_array, data, length) ==
    IF bit_array THEN {i \in 0 .. (length - 1) : GetBit(data, length, i)} ELSE {}

\* sum over input_i < length of weights[input_row + input_i] * input[input_i],
\* or of input[input_i] when the petal has no weights
RECURSIVE Dot(_, _, _, _)
Dot(weights, input, input_row, input_i) ==
    IF input_i \notin DOMAIN input THEN 0
    ELSE (IF weights = NullBuf THEN input[input_i]
          ELSE weights[input_row + input_i] * input[input_i])
         + Dot(weights, input, input_row, input_i + 1)

\* petal->output before activation; dropped holds the indices the type loop drops
TypeLoop(p, input, dropped) ==
    [i \in 0 .. (p.length - 1) |->
        IF i \in dropped THEN 0
        ELSE IF p.petal_type = PETAL_TYPE_DIRECT THEN input[i]
        ELSE Dot(p.weights, input, i * p.length, 0)
             + (IF p.bias_weights = NullBuf THEN 0 ELSE p.bias_weights[i])]

\* activation_forward(activation, layer, layer_length, bit_array) with the
\* indices it ignores
ActivationForward(a, layer, ignored) ==
    [i \in DOMAIN layer |->
        IF i \in ignored THEN layer[i]
        ELSE IF a.type = ACTIVATION_LINEAR THEN layer[i] * a.linear_alpha + a.linear_const
        ELSE IF layer[i] < 0 THEN layer[i] * a.relu_leak
        ELSE layer[i]]

\* petal_forward from the type loop on, were its last statement an assignment
\* made on every call: a call without an error would clear petal->error_code
ForwardFromCleared(p, input, dropout_enabled, data, bit_array_error, temp_ok) ==
    LET layer == TypeLoop(p, input, IF dropout_enabled
                                    THEN SetIndices(p.bit_array, data, p.length) ELSE {})
        activation_error ==
            IF p.activation.present /\ ~p.activation._derivatives_temp /\ ~temp_ok
            THEN ERROR_MALLOC ELSE ERROR_NONE
        activated ==
            IF p.activation.present /\ activation_error = ERROR_NONE
            THEN ActivationForward(p.activation, layer,
                                   SetIndices(p.bit_array, data, p.length))
            ELSE layer
        scaled ==
            IF dropout_enabled
            THEN [i \in DOMAIN activated |->
                    IF activated[i] # 0 THEN activated[i] * DropoutScaling(p.dropout)
                    ELSE activated[i]]
            ELSE activated
        bit_error == IF p.bit_array THEN bit_array_error ELSE ERROR_NONE
    IN  [p EXCEPT !.output = scaled,
                  !.activation._derivatives_temp =
                      @ \/ (p.activation.present /\ activation_error = ERROR_NONE),
                  !.error_code = Max(activation_error, bit_error)]

\* petal_forward from the type loop on: the petal after the call.  data is the
\* mask as the call finds it after its dropout stage, temp_ok says whether the
\* calloc of _derivatives_temp succeeds
ForwardFrom(p, input, dropout_enabled, data, bit_array_error, temp_ok) ==
    LET layer == TypeLoop(p, input, IF dropout_enabled
                                    THEN SetIndices(p.bit_array, data, p.length) ELSE {})
        activation_error ==
            IF p.activation.present /\ ~p.activation._derivatives_temp /\ ~temp_ok
            THEN ERROR_MALLOC ELSE ERROR_NONE
        activated ==
            IF p.activation.present /\ activation_error = ERROR_NONE
            THEN ActivationForward(p.activation, layer,
                                   SetIndices(p.bit_array, data, p.length))
            ELSE layer
        scaled ==
            IF dropout_enabled
            THEN [i \in DOMAIN activated |->
                    IF activated[i] # 0 THEN activated[i] * DropoutScaling(p.dropout)
                    ELSE activated[i]]
            ELSE activated
        bit_error == IF p.bit_array THEN bit_array_error ELSE ERROR_NONE
    IN  [p EXCEPT !.output = scaled,
                  !.activation._derivatives_temp =
                      @ \/ (p.activation.present /\ activation_error = ERROR_NONE),
                  !.error_code = IF activation_error # ERROR_NONE \/ bit_error # ERROR_NONE
                                 THEN Max(activation_error, bit_error) ELSE @]

\* flower_forward of a flower whose only petal is p, after its petal_forward:
\* <<what it returns, flower->error_code>>
FlowerForwardCheck(p, flower_error_code) ==
    IF p.error_code # ERROR_NONE THEN <<"NULL", p.error_code>>
    ELSE <<"output", flower_error_code>>

\* petal_forward(petal, input, training), called by the flower_forward of a
\* flower of this one petal.  chosen: the indices the dropout draws set;
\* survives: whether the process outlives a memset of bit_array_clear that
\* runs past the backing array
petal_forward(input, training, chosen, temp_ok, survives) ==
    LET dropout_enabled == training /\ pe.dropout[1] > 0 /\ pe.bit_array
        written == ClearWordsWritten(ba_length)
        past == IF dropout_enabled /\ written > 0 THEN Overrun(written - 1, ba_words) ELSE 0
        data == IF dropout_enabled
                THEN DropoutResult(ClearWords(ba_data, written), pe.dropout, chosen)
                ELSE ba_data
        after == IF dropout_enabled /\ ba_error # ERROR_NONE
                 THEN [pe EXCEPT !.error_code = ba_error]
                 ELSE ForwardFrom(pe, input, dropout_enabled, data, ba_error, temp_ok)
    IN  /\ pe_last.op # "crash"
        /\ Cardinality(chosen) = (IF dropout_enabled
                                  THEN DropOrKeepCount(ba_length, pe.dropout) ELSE 0)
        /\ ba_overrun' = Max(ba_overrun, past)
        /\ IF past > 0 /\ ~survives
           THEN /\ pe_last' = [pe_last EXCEPT !.op = "crash", !.training = training,
                                              !.input = input]
                /\ UNCHANGED <<pe, ba_data>>
           ELSE /\ pe_last' = [op |-> "petal_forward", training |-> training, input |-> input,
                               predicted |-> FlowerForwardCheck(after, pe_last.error_code)[1],
                               error_code |-> FlowerForwardCheck(after, pe_last.error_code)[2]]
                /\ ba_data' = data
                /\ pe' = after
        /\ UNCHANGED <<ba_length, ba_words, ba_error, ba_op, ba_ret,
                       dr_pc, dr_ratio, dr_target, dr_counter>>

\* ------------------------------------------------------------------ petal backward, loss
\* errors.h, loss.h
ERROR_ACTIVATION_NO_TEMP == 8
ERROR_LOSS_NO_TEMP == 9
LOSS_MEAN_SQUARED_ERROR == 0

\* a NULL weights_s pointer
NoWeights == WeightsCheckInit(FALSE, 0, 0)

\* weights_check_init on a record whose weights array the caller filled
PresetWeights(trainable, weights) ==
    [WeightsCheckInit(trainable, Cardinality(DOMAIN weights), 0) EXCEPT !.weights = weights]

\* the elements petal_init allocates for petal->error_on_input
ErrorOnInputLength(input_length, output_length) == output_length

\* petal_init(petal_type, first, input_shape, output_shape, weights,
\* bias_weights, activation, 0.f, ...) that returned without error;
\* activation._derivatives_temp holds the array, NullBuf when it is NULL
ShapedPetalInit(petal_type, first, input_length, output_length, weights, bias_weights, activation) ==
    [petal_type |-> petal_type, first |-> first,
     input_length |-> input_length, output_length |-> output_length,
     weights |-> weights, bias_weights |-> bias_weights,
     activation |-> [activation EXCEPT !._derivatives_temp = NullBuf],
     output |-> Calloc(output_length),
     error_on_input |-> IF first THEN NullBuf
                        ELSE Calloc(ErrorOnInputLength(input_length, output_length)),
     error_code |-> ERROR_NONE]

\* the type loop without its "Add bias weights" step
ShapedTypeLoopNoBias(p, input) ==
    [output_i \in 0 .. (p.output_length - 1) |->
        IF p.petal_type = PETAL_TYPE_DIRECT THEN input[output_i]
        ELSE Dot(p.weights.weights, input, output_i * p.input_length, 0)]

\* petal->output after the type loop of petal_forward, dropout off:
\* out[output_i] = sum_i W[output_i * input_length + i] * in[i] + b[output_i]
ShapedTypeLoop(p, input) ==
    [output_i \in 0 .. (p.output_length - 1) |->
        IF p.petal_type = PETAL_TYPE_DIRECT THEN input[output_i]
        ELSE Dot(p.weights.weights, input, output_i * p.input_length, 0)
             + (IF p.bias_weights.weights = NullBuf THEN 0
                ELSE p.bias_weights.weights[output_i])]

\* activation_forward(activation, layer, layer_length, NULL):
\* <<the activation after the call, the layer, the code returned>>
ActivationForwardTemp(a, layer, layer_length, temp_ok) ==
    IF a._derivatives_temp = NullBuf /\ ~temp_ok THEN <<a, layer, ERROR_MALLOC>>
    ELSE LET temp == IF a._derivatives_temp = NullBuf THEN Calloc(layer_length)
                     ELSE a._derivatives_temp
         IN  <<[a EXCEPT !._derivatives_temp =
                            IF a.type = ACTIVATION_RELU THEN layer ELSE temp],
               ActivationForward(a, layer, {}), ERROR_NONE>>

\* petal_forward(petal, input, training) on a petal without dropout
ShapedPetalForward(p, input, temp_ok) ==
    LET layer == ShapedTypeLoop(p, input)
        activated == IF p.activation.present
                     THEN ActivationForwardTemp(p.activation, layer, p.output_length, temp_ok)
                     ELSE <<p.activation, layer, ERROR_NONE>>
    IN  [p EXCEPT !.output = activated[2],
                  !.activation = activated[1],
                  !.error_code = IF activated[3] # ERROR_NONE THEN activated[3] ELSE @]

\* activation_backward without its check of _derivatives_temp
ActivationBackwardUnchecked(a, layer_activated) ==
    <<[i \in DOMAIN layer_activated |-> a.linear_alpha], ERROR_NONE>>

\* activation_backward(activation, layer_activated, length, NULL):
\* <<the layer after the call, the code returned>>
ActivationBackward(a, layer_activated) ==
    IF a._derivatives_temp = NullBuf THEN <<layer_activated, ERROR_ACTIVATION_NO_TEMP>>
    ELSE <<[i \in DOMAIN layer_activated |->
              IF a.type = ACTIVATION_LINEAR THEN a.linear_alpha
              ELSE IF a._derivatives_temp[i] < 0 THEN a.relu_leak
              ELSE 1],
           ERROR_NONE>>

\* the indices of petal->error_on_input the loops of petal_backward address
ErrorOnInputIndices(p) ==
    IF p.first THEN {}
    ELSE IF p.petal_type = PETAL_TYPE_DIRECT THEN 0 .. (p.output_length - 1)
    ELSE 0 .. (p.input_length - 1)

\* sum over grad_right_i of weights[grad_right_i * input_length + grad_left_i]
\* * output[grad_right_i]
RECURSIVE Backpropagate(_, _, _, _)
Backpropagate(p, output, grad_left_i, grad_right_i) ==
    IF grad_right_i \notin DOMAIN output THEN 0
    ELSE p.weights.weights[grad_right_i * p.input_length + grad_left_i] * output[grad_right_i]
         + Backpropagate(p, output, grad_left_i, grad_right_i + 1)

\* gradients[grad_right_i * input_length + grad_left_i] +=
\*     output[grad_right_i] * output_left[grad_left_i], when trainable
WeightGradients(w, output, output_left, input_length) ==
    IF w.trainable
    THEN [w EXCEPT !.gradients =
            [k \in DOMAIN @ |-> @[k] + output[k \div input_length] * output_left[k % input_length]]]
    ELSE w

\* bias gradients[grad_right_i] += output[grad_right_i], when trainable
BiasGradients(w, output) ==
    IF w.trainable THEN [w EXCEPT !.gradients = [k \in DOMAIN @ |-> @[k] + output[k]]]
    ELSE w

\* petal_backward(petal, error_right, output_left): the petal after the call,
\* as far as the call writes inside the arrays it owns
PetalBackward(p, error_right, output_left) ==
    IF p.petal_type = PETAL_TYPE_DIRECT
    THEN [p EXCEPT !.error_on_input =
            [i \in DOMAIN @ |-> IF i \in ErrorOnInputIndices(p) THEN error_right[i] ELSE @[i]]]
    ELSE LET derivatives == ActivationBackward(p.activation, p.output)
             output == [jacobian_col \in DOMAIN p.output |->
                           derivatives[1][jacobian_col] * error_right[jacobian_col]]
         IN  IF derivatives[2] # ERROR_NONE THEN [p EXCEPT !.error_code = derivatives[2]]
             ELSE [p EXCEPT
                     !.output = output,
                     !.error_on_input =
                         [grad_left_i \in DOMAIN @ |->
                             IF grad_left_i \in ErrorOnInputIndices(p)
                             THEN Backpropagate(p, output, grad_left_i, 0)
                             ELSE @[grad_left_i]],
                     !.weights = WeightGradients(@, output, output_left, p.input_length),
                     !.bias_weights = BiasGradients(@, output)]

\* the indices a petal_backward call addresses past the end of error_on_input
PastErrorOnInput(p) ==
    IF p.petal_type = PETAL_TYPE_DENSE_1D
       /\ ActivationBackward(p.activation, p.output)[2] # ERROR_NONE
    THEN {}
    ELSE ErrorOnInputIndices(p) \ DOMAIN p.error_on_input

\* loss_forward(loss, predicted, expected, length) of the mean squared error:
\* <<the loss after the call, the code returned>>; fails names the allocation
\* that fails if the call makes it.  The two malloc'ed arrays are written
\* before they are read (temp_1) or never read (temp_2) by this loss type
LossForward(l, predicted, expected, fails) ==
    IF l.loss = NullBuf /\ fails = "loss" THEN <<l, ERROR_MALLOC>>
    ELSE IF l._derivatives_temp_1 = NullBuf /\ fails = "_derivatives_temp_1"
    THEN <<[l EXCEPT !.loss = Calloc(l.length)], ERROR_MALLOC>>
    ELSE IF l._derivatives_temp_2 = NullBuf /\ fails = "_derivatives_temp_2"
    THEN <<[l EXCEPT !.loss = Calloc(l.length),
                     !._derivatives_temp_1 = IF @ = NullBuf THEN Calloc(l.length) ELSE @],
           ERROR_MALLOC>>
    ELSE LET temp_1 == [i \in 0 .. (l.length - 1) |-> expected[i] - predicted[i]]
             squares == [i \in 0 .. (l.length - 1) |-> temp_1[i] * temp_1[i]]
         IN  <<[l EXCEPT !.loss = [i \in 0 .. (l.length - 1) |->
                                     IF i = 0 THEN FDiv(Dot(NullBuf, squares, 0, 0), l.length)
                                     ELSE 0],
                         !._derivatives_temp_1 = temp_1,
                         !._derivatives_temp_2 = IF @ = NullBuf THEN Calloc(l.length) ELSE @],
               ERROR_NONE>>

\* loss_backward(loss, length): <<the loss after the call, the code returned>>
LossBackward(l) ==
    IF l._derivatives_temp_1 = NullBuf \/ l._derivatives_temp_2 = NullBuf
    THEN <<l, ERROR_LOSS_NO_TEMP>>
    ELSE <<[l EXCEPT !.loss = [i \in 0 .. (l.length - 1) |->
                                  FDiv((-2) * l._derivatives_temp_1[i], l.length)]],
           ERROR_NONE>>

\* the calls of the component
shaped_petal_forward(input, temp_ok) ==
    /\ bk_last.op # "crash"
    /\ bk_last.calls < MaxCalls
    /\ bk_petal' = ShapedPetalForward(bk_petal, input, temp_ok)
    /\ bk_last' = [bk_last EXCEPT !.op = "petal_forward", !.past = 0, !.calls = @ + 1,
                                  !.input = input]
    /\ UNCHANGED bk_loss

\* survives: whether the process outlives the writes past the end of
\* error_on_input, and the read of activation->_derivatives_temp through a
\* NULL activation that a Dense-1D petal without activation makes; a read
\* that is survived finds no array there
petal_backward(error_right, output_left, survives) ==
    LET past == PastErrorOnInput(bk_petal)
        null_read == /\ bk_petal.petal_type = PETAL_TYPE_DENSE_1D
                     /\ ~bk_petal.activation.present
    IN  /\ bk_last.op # "crash"
        /\ bk_last.calls < MaxCalls
        /\ IF (past # {} \/ null_read) /\ ~survives
           THEN /\ bk_last' = [bk_last EXCEPT !.op = "crash", !.past = Cardinality(past),
                                              !.calls = @ + 1]
                /\ UNCHANGED bk_petal
           ELSE /\ bk_petal' = PetalBackward(bk_petal, error_right, output_left)
                /\ bk_last' = [bk_last EXCEPT !.op = "petal_backward",
                                              !.past = Cardinality(past), !.calls = @ + 1]
        /\ UNCHANGED bk_loss

\* weights_update on the petal's weights and bias weights, as flower_train
\* calls it after a batch; plain gradient descent with learning rate 1
petal_weights_update ==
    LET o == CHOOSE o \in Optimizers : o.type = OPTIMIZER_SGD_MOMENTUM /\ o.momentum = 0
    IN  /\ bk_last.op # "crash"
        /\ bk_last.calls < MaxCalls
        /\ bk_petal' = [bk_petal EXCEPT
                          !.weights = IF @ = NoWeights THEN @
                                      ELSE WeightsUpdate(@, o, TRUE, TRUE)[1],
                          !.bias_weights = IF @ = NoWeights THEN @
                                           ELSE WeightsUpdate(@, o, TRUE, TRUE)[1]]
        /\ bk_last' = [bk_last EXCEPT !.op = "weights_update", !.past = 0, !.calls = @ + 1]
        /\ UNCHANGED bk_loss

loss_forward(predicted, expected, fails) ==
    /\ bk_last.op # "crash"
    /\ bk_last.calls < MaxCalls
    /\ bk_loss' = LossForward(bk_loss, predicted, expected, fails)[1]
    /\ bk_last' = [bk_last EXCEPT !.op = "loss_forward", !.past = 0, !.calls = @ + 1,
                                  !.ret = LossForward(bk_loss, predicted, expected, fails)[2]]
    /\ UNCHANGED bk_petal

loss_backward ==
    /\ bk_last.op # "crash"
    /\ bk_last.calls < MaxCalls
    /\ bk_loss' = LossBackward(bk_loss)[1]
    /\ bk_last' = [bk_last EXCEPT !.op = "loss_backward", !.past = 0, !.calls = @ + 1,
                                  !.ret = LossBackward(bk_loss)[2]]
    /\ UNCHANGED bk_petal

\* ------------------------------------------------------------------ shuffle
SIZEOF_FLOAT == 4

\* a float ** of array_length rows of `floats` floats each: byte b of row r
\* holds byte b of sample r
WholeSamples(array_length, floats) ==
    [row \in 0 .. (array_length - 1) |-> [b \in 0 .. (floats * SIZEOF_FLOAT - 1) |-> row]]

\* memcpy(buffer, array[move_to_index], element_size);
\* memcpy(array[move_to_index], array[i], element_size);
\* memcpy(array[i], buffer, element_size)
SwapRows(array, i, move_to_index, element_size) ==
    [row \in DOMAIN array |->
        [b \in DOMAIN array[row] |->
            IF b >= element_size THEN array[row][b]
            ELSE IF row = i THEN array[move_to_index][b]
            ELSE IF row = move_to_index THEN array[i][b]
            ELSE array[row][b]]]

\* the two malloc calls and the entry of the loop
shuffle_2d_begin(buffer_1_ok, buffer_2_ok) ==
    /\ sh_pc \in {"idle", "returned_true", "returned_false"}
    /\ sh_calls < MaxEpochs
    /\ sh_calls' = sh_calls + 1
    /\ sh_pc' = IF buffer_1_ok /\ buffer_2_ok THEN "loop" ELSE "returned_false"
    /\ sh_i' = 0
    /\ UNCHANGED sh

\* one iteration; move_to_index = (rand() * rand_multiplier) % array_length.
\* With array_2 NULL the read of array_2[move_to_index] is undefined: the
\* process faults, or goes on with the rows of array_1 swapped
shuffle_2d_swap(move_to_index, faults) ==
    /\ sh_pc = "loop"
    /\ sh_i < sh.array_length
    /\ IF sh.array_2 = NullBuf
       THEN /\ sh' = [sh EXCEPT !.array_1 = SwapRows(@, sh_i, move_to_index, sh.element_size_1)]
            /\ sh_pc' = IF faults THEN "crash" ELSE sh_pc
       ELSE /\ sh' = [sh EXCEPT
                        !.array_1 = SwapRows(@, sh_i, move_to_index, sh.element_size_1),
                        !.array_2 = SwapRows(@, sh_i, move_to_index, sh.element_size_2)]
            /\ UNCHANGED sh_pc
    /\ sh_i' = sh_i + 1
    /\ UNCHANGED sh_calls

\* the loop has ended: free the buffers, return true
shuffle_2d_end ==
    /\ sh_pc = "loop"
    /\ sh_i >= sh.array_length
    /\ sh_pc' = "returned_true"
    /\ UNCHANGED <<sh, sh_i, sh_calls>>

\* ------------------------------------------------------------------ flower_train
\* errors.h
ERROR_LOSS_WRONG_TYPE == 13
ERROR_WRONG_BATCH_SIZE == 14

\* a value stored in an unsigned counter
U32(x) == x % WordRange

\* train_length / batch_size; by_zero is what an integer division by 0 leaves
\* in the quotient on a build where it does not trap
Quotient(train_length, batch_size, by_zero) ==
    IF batch_size = 0 THEN by_zero ELSE train_length \div batch_size

\* batches_per_epoch = train_length / batch_size;
\* if (batches_per_epoch * batch_size < train_length) batches_per_epoch++
BatchesPerEpoch(train_length, batch_size, by_zero) ==
    IF U32(Quotient(train_length, batch_size, by_zero) * batch_size) < train_length
    THEN U32(Quotient(train_length, batch_size, by_zero) + 1)
    ELSE Quotient(train_length, batch_size, by_zero)

\* sample_index_from = batch_index * batch_size
SampleIndexFrom(batch_index, batch_size) == U32(batch_index * batch_size)

\* sample_index_to = batch_index * batch_size + batch_size, cut at train_length
SampleIndexTo(batch_index, batch_size, train_length) ==
    IF U32(batch_index * batch_size + batch_size) > train_length
    THEN train_length
    ELSE U32(batch_index * batch_size + batch_size)

\* a call of the batch: <<function, sample or batch index, petal index or part>>
Ev(op, a, b) == <<op, a, b>>

\* what flower_train sees of petal_forward: the petal's error_code, and whether
\* its activation has _derivatives_temp (temp); the calloc of it is made once
PetalForwardIn(p, temp_ok) ==
    IF p.temp \/ temp_ok THEN [p EXCEPT !.temp = TRUE]
    ELSE [p EXCEPT !.error_code = ERROR_MALLOC]

\* flower_forward from petal i on; the calloc made for petal fail_at fails
RECURSIVE FlowerForward(_, _, _)
FlowerForward(f, i, fail_at) ==
    IF i >= f.petals_length THEN [f EXCEPT !.predicted = "output"]
    ELSE LET p == PetalForwardIn(f.petals[i], i # fail_at)
             g == [f EXCEPT !.petals[i] = p, !.evaluated = Append(@, i)]
         IN  IF p.error_code # ERROR_NONE
             THEN [g EXCEPT !.error_code = p.error_code, !.predicted = "NULL"]
             ELSE FlowerForward(g, i + 1, fail_at)

\* mutant of AfterForward: the NULL check after flower_forward is left out
AfterForwardUnchecked(predicted, next) == next

\* if (!predicted) return;
AfterForward(predicted, next) == IF predicted = "NULL" THEN "returned" ELSE next

\* mutant of AfterSample: the weights update runs after every sample
AfterSamplePerSample(sample_index, sample_index_to) == "update"

\* the training stage's for loop: the next sample, or the weights update
AfterSample(sample_index, sample_index_to) ==
    IF sample_index < sample_index_to THEN "forward" ELSE "update"

\* the checks and allocations before the epoch loop.  With batch_size = 0 the
\* division of train_length by it is undefined: it traps (faults) or leaves
\* by_zero in the quotient
flower_train_begin(loss_type_ok, loss_ok, sparse, output_temp_ok, faults, by_zero) ==
    LET batches_per_epoch == BatchesPerEpoch(tr_cfg.train_length, tr_cfg.batch_size, by_zero)
        early == IF ~loss_type_ok THEN ERROR_LOSS_WRONG_TYPE
                 ELSE IF ~loss_ok THEN ERROR_MALLOC
                 ELSE IF sparse /\ ~output_temp_ok THEN ERROR_MALLOC
                 ELSE ERROR_NONE
        trap == early = ERROR_NONE /\ tr_cfg.batch_size = 0 /\ faults
        code == IF early # ERROR_NONE THEN early
                ELSE IF ~trap /\ batches_per_epoch = 0 THEN ERROR_WRONG_BATCH_SIZE
                ELSE ERROR_NONE
    IN  /\ tr_pc = "start"
        /\ tr_flower' = IF tr_cfg.train_length = 0 THEN tr_flower
                        ELSE [tr_flower EXCEPT
                                !._loss = IF loss_type_ok /\ loss_ok THEN "struct" ELSE @,
                                !.error_code = IF code # ERROR_NONE THEN code ELSE @]
        /\ tr_pc' = IF tr_cfg.train_length = 0 \/ code # ERROR_NONE THEN "returned"
                    ELSE IF trap THEN "crash"
                    ELSE "epoch"
        /\ tr_loop' = IF trap \/ early # ERROR_NONE THEN tr_loop
                      ELSE [tr_loop EXCEPT !.batches_per_epoch = batches_per_epoch]
        /\ UNCHANGED <<tr_cfg, tr_trace, tr_trained, tr_call>>

\* the head of the epoch loop; the shuffle_2d call of an epoch is SpecShuffle's
\* subject, a sample index here names a row of the arrays whatever it holds.
\* shuffled is what shuffle_2d returns (false: a malloc of it failed); the call
\* is a statement of its own, its value is dropped
train_epoch(shuffled) ==
    /\ tr_pc = "epoch"
    /\ IF tr_loop.epoch_index < tr_cfg.epochs
       THEN /\ tr_pc' = "batch"
            /\ tr_loop' = [tr_loop EXCEPT !.batch_index = 0, !.shuffle_2d = shuffled]
            /\ tr_trained' = [s \in DOMAIN tr_trained |-> 0]
       ELSE /\ tr_pc' = "returned"
            /\ UNCHANGED <<tr_loop, tr_trained>>
    /\ UNCHANGED <<tr_cfg, tr_flower, tr_trace, tr_call>>

\* the head of the batch loop: the bounds of the batch, `continue` when empty
train_batch ==
    LET from == SampleIndexFrom(tr_loop.batch_index, tr_cfg.batch_size)
        to == SampleIndexTo(tr_loop.batch_index, tr_cfg.batch_size, tr_cfg.train_length)
    IN  /\ tr_pc = "batch"
        /\ IF tr_loop.batch_index >= tr_loop.batches_per_epoch
           THEN /\ tr_pc' = "epoch"
                /\ tr_loop' = [tr_loop EXCEPT !.epoch_index = U32(@ + 1)]
                /\ UNCHANGED tr_trace
           ELSE IF to <= from
           THEN /\ tr_loop' = [tr_loop EXCEPT !.batch_index = U32(@ + 1)]
                /\ UNCHANGED <<tr_pc, tr_trace>>
           ELSE /\ tr_pc' = "forward"
                /\ tr_loop' = [tr_loop EXCEPT !.sample_index_from = from,
                                              !.sample_index_to = to,
                                              !.sample_index = from]
                /\ tr_trace' = <<>>
        /\ UNCHANGED <<tr_cfg, tr_flower, tr_trained, tr_call>>

\* flower_forward(flower, inputs_train[sample_index], true) and its NULL check
train_forward(fail_at) ==
    LET f == FlowerForward([tr_flower EXCEPT !.evaluated = <<>>], 0, fail_at)
    IN  /\ tr_pc = "forward"
        /\ fail_at < tr_flower.petals_length => ~tr_flower.petals[fail_at].temp
        /\ tr_flower' = f
        /\ tr_trace' = Append(tr_trace, Ev("flower_forward", tr_loop.sample_index, 1))
        /\ tr_pc' = AfterForward(f.predicted, "loss_forward")
        /\ UNCHANGED <<tr_cfg, tr_loop, tr_trained, tr_call>>

\* loss_forward, its error check, the sums and metrics_calculate_accuracy; the
\* buffers of the loss are allocated by the first call
train_loss_forward(loss_ok) ==
    /\ tr_pc = "loss_forward"
    /\ loss_ok \/ tr_flower._loss = "struct"
    /\ tr_flower' = IF loss_ok THEN [tr_flower EXCEPT !._loss = "ready"]
                    ELSE [tr_flower EXCEPT !.error_code = ERROR_MALLOC]
    /\ tr_trace' = Append(tr_trace, Ev("loss_forward", tr_loop.sample_index, 0))
    /\ tr_pc' = IF loss_ok THEN "loss_backward" ELSE "returned"
    /\ UNCHANGED <<tr_cfg, tr_loop, tr_trained, tr_call>>

\* loss_backward and the entry of the backward loop: petal_i = petals_length - 1
train_loss_backward ==
    /\ tr_pc = "loss_backward"
    /\ tr_trace' = Append(tr_trace, Ev("loss_backward", tr_loop.sample_index, 0))
    /\ tr_loop' = [tr_loop EXCEPT !.petal_i = tr_flower.petals_length - 1]
    /\ tr_pc' = "petal_backward"
    /\ UNCHANGED <<tr_cfg, tr_flower, tr_trained, tr_call>>

\* the buffers one iteration of the backward loop hands to petal_backward, and
\* the indices of flower->petals it reads
BackwardCall(petal_i, petals_length) ==
    IF petal_i = petals_length - 1
    THEN [op |-> "petal_backward", petal |-> petal_i, error_right |-> <<"loss", 0>>,
          output_left |-> <<"output", petal_i - 1>>, touched |-> {petal_i, petal_i - 1}]
    ELSE IF petal_i = 0
    THEN [op |-> "petal_backward", petal |-> petal_i,
          error_right |-> <<"error_on_input", petal_i + 1>>,
          output_left |-> <<"input", 0>>, touched |-> {petal_i, petal_i + 1}]
    ELSE [op |-> "petal_backward", petal |-> petal_i,
          error_right |-> <<"error_on_input", petal_i + 1>>,
          output_left |-> <<"output", petal_i - 1>>,
          touched |-> {petal_i, petal_i + 1, petal_i - 1}]

\* one iteration of the backward loop.  A read of flower->petals outside
\* 0 .. petals_length - 1 is undefined: the process faults (faults), or goes
\* on with whatever the read gave
train_petal_backward(faults) ==
    LET i == tr_loop.petal_i
        call == BackwardCall(i, tr_flower.petals_length)
        next == U32(tr_loop.sample_index + 1)
    IN  /\ tr_pc = "petal_backward"
        /\ faults => (call.touched \ (0 .. (tr_flower.petals_length - 1))) # {}
        /\ tr_call' = call
        /\ tr_trace' = Append(tr_trace, Ev("petal_backward", tr_loop.sample_index, i))
        /\ IF faults
           THEN /\ tr_pc' = "crash"
                /\ UNCHANGED <<tr_flower, tr_loop, tr_trained>>
           ELSE IF tr_flower.petals[i].error_code # ERROR_NONE
           THEN /\ tr_flower' = [tr_flower EXCEPT !.error_code = tr_flower.petals[i].error_code]
                /\ tr_pc' = "returned"
                /\ UNCHANGED <<tr_loop, tr_trained>>
           ELSE IF i - 1 >= 0
           THEN /\ tr_loop' = [tr_loop EXCEPT !.petal_i = i - 1]
                /\ UNCHANGED <<tr_pc, tr_flower, tr_trained>>
           ELSE /\ tr_loop' = [tr_loop EXCEPT !.sample_index = next, !.petal_i = 0]
                /\ tr_trained' = [tr_trained EXCEPT ![tr_loop.sample_index] = @ + 1]
                /\ tr_pc' = AfterSample(next, tr_loop.sample_index_to)
                /\ UNCHANGED tr_flower
        /\ UNCHANGED tr_cfg

\* one iteration of the weights update loop: weights_update on the petal's
\* weights, then on its bias weights when the first returned ERROR_NONE.  The
\* calloc of velocities_or_cache is made by the first update of a record
train_weights_update(fail) ==
    LET i == tr_loop.petal_i
    IN  /\ tr_pc = "update"
        /\ fail # "none" => ~tr_flower.petals[i].velocities
        /\ tr_trace' = tr_trace \o
              (IF fail = "weights" THEN <<Ev("weights_update", i, 0)>>
               ELSE <<Ev("weights_update", i, 0), Ev("weights_update", i, 1)>>)
        /\ IF fail # "none"
           THEN /\ tr_flower' = [tr_flower EXCEPT !.error_code = ERROR_MALLOC]
                /\ tr_pc' = "returned"
                /\ UNCHANGED tr_loop
           ELSE /\ tr_flower' = [tr_flower EXCEPT !.petals[i].velocities = TRUE]
                /\ IF i + 1 < tr_flower.petals_length
                   THEN /\ tr_loop' = [tr_loop EXCEPT !.petal_i = i + 1]
                        /\ UNCHANGED tr_pc
                   ELSE /\ tr_loop' = [tr_loop EXCEPT !.petal_i = 0, !.validation_index = 0]
                        /\ tr_pc' = IF tr_cfg.validation_length > 0
                                    THEN "validation" ELSE "metrics"
        /\ UNCHANGED <<tr_cfg, tr_trained, tr_call>>

\* one sample of the validation stage: flower_forward(..., false), loss_forward
train_validation(fail_at) ==
    LET f == FlowerForward([tr_flower EXCEPT !.evaluated = <<>>], 0, fail_at)
        next == U32(tr_loop.validation_index + 1)
    IN  /\ tr_pc = "validation"
        /\ fail_at < tr_flower.petals_length => ~tr_flower.petals[fail_at].temp
        /\ tr_flower' = f
        /\ tr_trace' = Append(tr_trace, Ev("validation", tr_loop.validation_index, 0))
        /\ tr_loop' = [tr_loop EXCEPT !.validation_index = next]
        /\ tr_pc' = AfterForward(f.predicted,
                                 IF next < tr_cfg.validation_length
                                 THEN "validation" ELSE "metrics")
        /\ UNCHANGED <<tr_cfg, tr_trained, tr_call>>

\* metrics_calculate_batch, the end of the batch
train_metrics ==
    /\ tr_pc = "metrics"
    /\ tr_trace' = Append(tr_trace, Ev("metrics_calculate_batch", tr_loop.batch_index, 0))
    /\ tr_loop' = [tr_loop EXCEPT !.batch_index = U32(@ + 1)]
    /\ tr_pc' = "batch"
    /\ UNCHANGED <<tr_cfg, tr_flower, tr_trained, tr_call>>

\* ------------------------------------------------------------------ SpecWeights
InitWeightsWith(w) ==
    /\ wt = w
    /\ wt_last = [op |-> "init", ret |-> ERROR_NONE,
                  opt |-> CHOOSE o \in Optimizers : o.type = OPTIMIZER_SGD_MOMENTUM /\ o.momentum = 0,
                  had_grads |-> FALSE]
    /\ wt_updates = 0

ParkWeights == InitWeightsWith(WeightsCheckInit(FALSE, 1, 0))

InitWeights ==
    \E trainable \in BOOLEAN, length_total \in 1 .. MaxWLen, center \in {0, 1} :
        InitWeightsWith(WeightsCheckInit(trainable, length_total, center))

NextWeights ==
    \/ \E delta \in GradDeltas(wt) :
           petal_backward_accumulate(delta) /\ UNCHANGED othersOfWeights
    \/ \E o \in Optimizers, velocities_ok \in BOOLEAN, moments_ok \in BOOLEAN :
           weights_update(o, velocities_ok, moments_ok) /\ UNCHANGED othersOfWeights

\* ------------------------------------------------------------------ SpecMask
InitMaskWith(b) ==
    /\ ba_length = b.length
    /\ ba_words = b.words
    /\ ba_data = b.data
    /\ ba_error = b.error
    /\ ba_overrun = 0
    /\ ba_op = [name |-> "init", index |-> 0]
    /\ ba_ret = FALSE
    /\ dr_pc = "idle"
    /\ dr_ratio = <<0, 1>>
    /\ dr_target = 0
    /\ dr_counter = 0

\* the shortest mask whose backing array has two words
TwoWordLen == BIT_ARRAY_BITS + 1

\* the mask lengths bit_array_init is called with
MaskSizes == (1 .. MaxLen) \cup {TwoWordLen}

\* the indices set / clear / get are called with: in range, and up to two past it
MaskIndices == 0 .. (ba_length + 1)

InitMask ==
    \E size_bits \in MaskSizes, data_ok \in BOOLEAN :
        InitMaskWith(BitArrayInit(size_bits, data_ok))

NextMask ==
    \/ \E index \in MaskIndices : bit_array_set_bit(index) /\ UNCHANGED othersOfMask
    \/ \E index \in MaskIndices : bit_array_clear_bit(index) /\ UNCHANGED othersOfMask
    \/ \E index \in MaskIndices : bit_array_get_bit(index) /\ UNCHANGED othersOfMask
    \/ bit_array_not /\ UNCHANGED othersOfMask
    \/ bit_array_clear /\ UNCHANGED othersOfMask
    \/ \E r \in Ratios : dropout_generate_indices_begin(r) /\ UNCHANGED othersOfMask
    \/ \E index \in 0 .. (ba_length - 1) : dropout_draw(index) /\ UNCHANGED othersOfMask
    \/ dropout_generate_indices_end /\ UNCHANGED othersOfMask

\* ------------------------------------------------------------------ SpecPetal
\* the program that owns the petal reads a bit of its mask between two passes:
\* the last one, or the one after it
mask_read(index) ==
    /\ pe.bit_array
    /\ pe_last.op # "crash"
    /\ bit_array_get_bit(index)
    /\ pe_last' = [pe_last EXCEPT !.op = "bit_array_get_bit"]
    /\ UNCHANGED pe

\* petal_init(...) that returned without error; bit_array is whether
\* petal->bit_array is non-NULL
PetalInit(petal_type, length, weights, bias_weights, activation, dropout) ==
    [petal_type |-> petal_type, length |-> length, weights |-> weights,
     bias_weights |-> bias_weights, activation |-> activation, dropout |-> dropout,
     bit_array |-> dropout[1] > 0, output |-> Calloc(length), error_code |-> ERROR_NONE]

InitPetalWith(p) ==
    /\ pe = p
    /\ pe_last = [op |-> "init", training |-> FALSE, input |-> Calloc(p.length),
                  predicted |-> "none", error_code |-> ERROR_NONE]

ParkPetal ==
    InitPetalWith(PetalInit(PETAL_TYPE_DIRECT, 1, NullBuf, NullBuf, NoActivation, <<0, 1>>))

\* the values of an input vector
PetalInputs == {-1, 1}

InitPetal ==
    \E petal_type \in {PETAL_TYPE_DIRECT, PETAL_TYPE_DENSE_1D}, length \in 1 .. MaxPetalLen,
       weighted \in BOOLEAN, biased \in BOOLEAN,
       activation \in Activations, dropout \in PetalDropouts :
        /\ petal_type = PETAL_TYPE_DIRECT => (~weighted /\ ~biased)
        /\ InitPetalWith(PetalInit(
               petal_type, length,
               IF weighted THEN WeightsCheckInit(TRUE, length * length, 2).weights ELSE NullBuf,
               IF biased THEN WeightsCheckInit(TRUE, length, 1).weights ELSE NullBuf,
               activation, dropout))
        /\ InitMaskWith(BitArrayInit(IF dropout[1] > 0 THEN length ELSE 1, TRUE))

NextPetal ==
    \/ \E input \in [0 .. (pe.length - 1) -> PetalInputs], training \in BOOLEAN,
          chosen \in SUBSET (0 .. (pe.length - 1)), temp_ok \in BOOLEAN, survives \in BOOLEAN :
           petal_forward(input, training, chosen, temp_ok, survives) /\ UNCHANGED othersOfPetal
    \/ \E index \in {ba_length - 1, ba_length} : mask_read(index) /\ UNCHANGED othersOfPetal

\* ------------------------------------------------------------------ SpecShuffle
\* the training set as flower_train hands it to shuffle_2d: array_1 =
\* inputs_train, array_2 = outputs_true_train (NULL when there are only sparse
\* labels), element sizes = petals[0]->input_shape->length and the last petal's
\* output_shape->length; sparse = outputs_true_train_sparse, row -> the sample
\* its labels came from
TrainSet(train_length, input_length, output_length, dense, sparse) ==
    [array_1 |-> WholeSamples(train_length, input_length),
     array_2 |-> IF dense THEN WholeSamples(train_length, output_length) ELSE NullBuf,
     sparse |-> IF sparse THEN [row \in 0 .. (train_length - 1) |-> row] ELSE NullBuf,
     array_length |-> train_length,
     element_size_1 |-> input_length,
     element_size_2 |-> output_length]

InitShuffleWith(d) ==
    /\ sh = d
    /\ sh_pc = "idle"
    /\ sh_i = 0
    /\ sh_calls = 0

ParkShuffle == InitShuffleWith(TrainSet(1, 1, 1, TRUE, FALSE))

InitShuffle ==
    \E train_length \in 1 .. MaxTrain, input_length \in 1 .. MaxShape,
       output_length \in 1 .. MaxShape, dense \in BOOLEAN, sparse \in BOOLEAN :
        /\ dense \/ sparse
        /\ InitShuffleWith(TrainSet(train_length, input_length, output_length, dense, sparse))

NextShuffle ==
    \/ \E buffer_1_ok \in BOOLEAN, buffer_2_ok \in BOOLEAN :
           shuffle_2d_begin(buffer_1_ok, buffer_2_ok) /\ UNCHANGED othersOfShuffle
    \/ \E move_to_index \in 0 .. (sh.array_length - 1), faults \in BOOLEAN :
           shuffle_2d_swap(move_to_index, faults) /\ UNCHANGED othersOfShuffle
    \/ shuffle_2d_end /\ UNCHANGED othersOfShuffle

\* ------------------------------------------------------------------ SpecTrain
\* a petal as flower_train meets it: no error from petal_init, nothing lazily
\* allocated yet
TrainPetal == [error_code |-> ERROR_NONE, temp |-> FALSE, velocities |-> FALSE]

\* flower_init(petals, petals_length), and the call flower_train(...) on it
InitTrainWith(c) ==
    /\ tr_cfg = c
    /\ tr_flower = [petals_length |-> c.petals_length,
                    petals |-> [i \in 0 .. (c.petals_length - 1) |-> TrainPetal],
                    error_code |-> ERROR_NONE, _loss |-> "NULL",
                    evaluated |-> <<>>, predicted |-> "none"]
    /\ tr_pc = "start"
    /\ tr_loop = [epoch_index |-> 0, batch_index |-> 0, batches_per_epoch |-> 0,
                  sample_index_from |-> 0, sample_index_to |-> 0, sample_index |-> 0,
                  petal_i |-> 0, validation_index |-> 0, shuffle_2d |-> TRUE]
    /\ tr_trace = <<>>
    /\ tr_trained = [s \in 0 .. (c.train_length - 1) |-> 0]
    /\ tr_call = [op |-> "none", petal |-> 0, error_right |-> <<"none", 0>>,
                  output_left |-> <<"none", 0>>, touched |-> {}]

TrainArgs(petals_length, train_length, batch_size, validation_length, epochs) ==
    [petals_length |-> petals_length, train_length |-> train_length,
     batch_size |-> batch_size, validation_length |-> validation_length, epochs |-> epochs]

ParkTrain == InitTrainWith(TrainArgs(1, 1, 1, 0, 1))

InitTrain ==
    \E petals_length \in 1 .. MaxPetals, train_length \in 1 .. MaxSamples,
       batch_size \in 0 .. MaxBatch, validation_length \in 0 .. MaxValidation,
       epochs \in 1 .. MaxEpochs :
        InitTrainWith(TrainArgs(petals_length, train_length, batch_size,
                                validation_length, epochs))

NextTrain ==
    \/ \E loss_type_ok \in BOOLEAN, loss_ok \in BOOLEAN, sparse \in BOOLEAN,
          output_temp_ok \in BOOLEAN, faults \in BOOLEAN, by_zero \in 0 .. (WordRange - 1) :
           flower_train_begin(loss_type_ok, loss_ok, sparse, output_temp_ok, faults, by_zero)
               /\ UNCHANGED othersOfTrain
    \/ \E shuffled \in BOOLEAN : train_epoch(shuffled) /\ UNCHANGED othersOfTrain
    \/ train_batch /\ UNCHANGED othersOfTrain
    \/ \E fail_at \in 0 .. tr_flower.petals_length :
           train_forward(fail_at) /\ UNCHANGED othersOfTrain
    \/ \E loss_ok \in BOOLEAN : train_loss_forward(loss_ok) /\ UNCHANGED othersOfTrain
    \/ train_loss_backward /\ UNCHANGED othersOfTrain
    \/ \E faults \in BOOLEAN : train_petal_backward(faults) /\ UNCHANGED othersOfTrain
    \/ \E fail \in {"none", "weights", "bias"} :
           train_weights_update(fail) /\ UNCHANGED othersOfTrain
    \/ \E fail_at \in 0 .. tr_flower.petals_length :
           train_validation(fail_at) /\ UNCHANGED othersOfTrain
    \/ train_metrics /\ UNCHANGED othersOfTrain

\* ------------------------------------------------------------------ SpecBackward
InitBackwardWith(p, l) ==
    /\ bk_petal = p
    /\ bk_loss = l
    /\ bk_last = [op |-> "init", ret |-> ERROR_NONE, past |-> 0, calls |-> 0,
                  input |-> Calloc(p.input_length)]

\* calloc(1, sizeof(loss_s)) with the type set, for calls of the given length
LossInit(type, length) ==
    [type |-> type, length |-> length, loss |-> NullBuf,
     _derivatives_temp_1 |-> NullBuf, _derivatives_temp_2 |-> NullBuf]

ParkBackward ==
    InitBackwardWith(ShapedPetalInit(PETAL_TYPE_DIRECT, TRUE, 1, 1, NoWeights, NoWeights,
                                     NoActivation),
                     LossInit(LOSS_MEAN_SQUARED_ERROR, 1))

\* the values of an element of a weights array the caller fills
PresetValues == {0, 1}

\* a Direct petal has equal shapes and no weights; a Dense-1D petal here has
\* weights, and bias weights or not
InitBackward ==
    \E petal_type \in {PETAL_TYPE_DIRECT, PETAL_TYPE_DENSE_1D}, first \in BOOLEAN,
       input_length \in 1 .. MaxShape, output_length \in 1 .. MaxShape,
       trainable \in BOOLEAN, biased \in BOOLEAN, center \in PresetValues,
       activation \in Activations :
        \E weights \in [0 .. (input_length * output_length - 1) -> PresetValues] :
            /\ petal_type = PETAL_TYPE_DIRECT =>
                   /\ input_length = output_length
                   /\ trainable /\ ~biased
                   /\ \A i \in DOMAIN weights : weights[i] = 0
            /\ ~biased => center = 0
            /\ InitBackwardWith(
                   ShapedPetalInit(
                       petal_type, first, input_length, output_length,
                       IF petal_type = PETAL_TYPE_DIRECT THEN NoWeights
                       ELSE PresetWeights(trainable, weights),
                       IF biased THEN WeightsCheckInit(trainable, output_length, center)
                       ELSE NoWeights,
                       activation),
                   LossInit(LOSS_MEAN_SQUARED_ERROR, output_length))

NextBackward ==
    \/ \E input \in [0 .. (bk_petal.input_length - 1) -> PetalInputs], temp_ok \in BOOLEAN :
           shaped_petal_forward(input, temp_ok) /\ UNCHANGED othersOfBackward
    \/ \E error_right \in [0 .. (bk_petal.output_length - 1) -> PetalInputs],
          output_left \in [0 .. (bk_petal.input_length - 1) -> PetalInputs],
          survives \in BOOLEAN :
           petal_backward(error_right, output_left, survives) /\ UNCHANGED othersOfBackward
    \/ petal_weights_update /\ UNCHANGED othersOfBackward
    \/ \E predicted \in [0 .. (bk_loss.length - 1) -> PetalInputs],
          expected \in [0 .. (bk_loss.length - 1) -> PetalInputs],
          fails \in {"none", "loss", "_derivatives_temp_1", "_derivatives_temp_2"} :
           loss_forward(predicted, expected, fails) /\ UNCHANGED othersOfBackward
    \/ loss_backward /\ UNCHANGED othersOfBackward

\* ------------------------------------------------------------------ random
\* random.h
RK_STATE_LEN == 624
N == 624
M == 397

\* A uint32_t is the pair <<high 16 bits, low 16 bits>>, so that no
\* intermediate value leaves the range of the evaluator's integers.
Pow2(k) == 2 ^ k
Word(hi, lo) == <<hi, lo>>
MATRIX_A == Word(39176, 45279)
UPPER_MASK == Word(32768, 0)
LOWER_MASK == Word(32767, 65535)

\* a ^ b, a & b, a | b on the 16 bits of a half, lowest bit first
RECURSIVE BitXor(_, _)
BitXor(a, b) ==
    IF a = 0 THEN b
    ELSE IF b = 0 THEN a
    ELSE ((a + b) % 2) + 2 * BitXor(a \div 2, b \div 2)

RECURSIVE BitAnd(_, _)
BitAnd(a, b) ==
    IF a = 0 \/ b = 0 THEN 0
    ELSE ((a % 2) * (b % 2)) + 2 * BitAnd(a \div 2, b \div 2)

RECURSIVE BitOr(_, _)
BitOr(a, b) ==
    IF a = 0 THEN b
    ELSE IF b = 0 THEN a
    ELSE Max(a % 2, b % 2) + 2 * BitOr(a \div 2, b \div 2)

\* x ^ y, x & y, x | y on uint32_t
Xor(x, y) == Word(BitXor(x[1], y[1]), BitXor(x[2], y[2]))
And(x, y) == Word(BitAnd(x[1], y[1]), BitAnd(x[2], y[2]))
Or(x, y) == Word(BitOr(x[1], y[1]), BitOr(x[2], y[2]))

\* x >> k and x << k on uint32_t, 0 < k < 32 and 0 < k < 16
Shr(x, k) ==
    IF k >= 16 THEN Word(0, x[1] \div Pow2(k - 16))
    ELSE Word(x[1] \div Pow2(k), (x[1] % Pow2(k)) * Pow2(16 - k) + (x[2] \div Pow2(k)))
Shl(x, k) ==
    Word(((x[1] % Pow2(16 - k)) * Pow2(k) + (x[2] \div Pow2(16 - k))) % Pow2(16),
         (x[2] % Pow2(16 - k)) * Pow2(k))

\* the bytes of x, lowest first; those of 1812433253 = 0x6C078965
Bytes(x) == <<x[2] % 256, x[2] \div 256, x[1] % 256, x[1] \div 256>>
KnuthMultiplier == Word(27655, 35173)

\* (1812433253UL * x) & 0xffffffffUL, by the schoolbook product of the bytes
Mul(x) ==
    LET a == Bytes(x)
        b == Bytes(KnuthMultiplier)
        c0 == a[1] * b[1]
        c1 == a[1] * b[2] + a[2] * b[1] + (c0 \div 256)
        c2 == a[1] * b[3] + a[2] * b[2] + a[3] * b[1] + (c1 \div 256)
        c3 == a[1] * b[4] + a[2] * b[3] + a[3] * b[2] + a[4] * b[1] + (c2 \div 256)
    IN  Word((c3 % 256) * 256 + (c2 % 256), (c1 % 256) * 256 + (c0 % 256))

\* (x + n) & 0xffffffffUL for 0 <= n <= RK_STATE_LEN
AddInt(x, n) ==
    LET lo == x[2] + n
    IN  Word((x[1] + (lo \div Pow2(16))) % Pow2(16), lo % Pow2(16))

\* the seed after iteration i of rk_seed's loop
NextSeed(seed, i) == AddInt(Mul(Xor(seed, Shr(seed, 30))), i + 1)

\* iterations i .. end - 1 of rk_seed's loop: <<the keys they write, the seed
\* they leave>>
RECURSIVE SeedKeys(_, _, _, _)
SeedKeys(key, seed, i, end) ==
    IF i = end THEN <<key, seed>>
    ELSE SeedKeys(Append(key, seed), NextSeed(seed, i), i + 1, end)

\* rk_seed's loop from iteration i on, run 24 iterations at a time (624 nested
\* evaluations are more than the evaluator's stack holds)
RECURSIVE SeedBlocks(_, _, _)
SeedBlocks(key, seed, i) ==
    IF i = RK_STATE_LEN THEN key
    ELSE LET block == SeedKeys(<<>>, seed, i, i + 24)
         IN  SeedBlocks(key \o block[1], block[2], i + 24)

\* rk_seed(seed, state): the state it leaves; key[i] of the code is
\* key[i + 1].  The key is kept as rk_seed wrote it: regenerated says that the
\* regeneration loops of rk_random have run over it since, and KeyAt gives
\* the word they left at an index
rk_seed(seed) ==
    [key |-> SeedBlocks(<<>>, seed, 0), regenerated |-> FALSE, pos |-> RK_STATE_LEN]

\* one assignment of the regeneration loops:
\* y = (k & UPPER_MASK) | (k1 & LOWER_MASK); km ^ (y >> 1) ^ (-(y & 1) & MATRIX_A)
TwistWord(k, k1, km) ==
    LET y == Or(And(k, UPPER_MASK), And(k1, LOWER_MASK))
    IN  Xor(Xor(km, Shr(y, 1)), IF y[2] % 2 = 1 THEN MATRIX_A ELSE Word(0, 0))

\* key[i] after the three regeneration statements of rk_random have run
\* over key.  The loops run in place: for i < N - M the word M places ahead
\* is still the old one, from N - M on the word N - M places back is already
\* new, and the last statement uses the new key[0] and key[M - 1]
RECURSIVE Twist(_, _)
Twist(key, i) ==
    IF i < N - M THEN TwistWord(key[i + 1], key[i + 2], key[i + M + 1])
    ELSE IF i < N - 1 THEN TwistWord(key[i + 1], key[i + 2], Twist(key, i - (N - M)))
    ELSE TwistWord(key[N], Twist(key, 0), Twist(key, M - 1))

\* state->key[i]
KeyAt(state, i) == IF state.regenerated THEN Twist(state.key, i) ELSE state.key[i + 1]

\* the tempering of rk_random without its last statement
TemperNoLastShift(y) ==
    LET y1 == Xor(y, Shr(y, 11))
        y2 == Xor(y1, And(Shl(y1, 7), Word(40236, 22144)))
    IN  Xor(y2, And(Shl(y2, 15), Word(61382, 0)))

\* the tempering of rk_random; the masks are 0x9d2c5680 and 0xefc60000
Temper(y) ==
    LET y1 == Xor(y, Shr(y, 11))
        y2 == Xor(y1, And(Shl(y1, 7), Word(40236, 22144)))
        y3 == Xor(y2, And(Shl(y2, 15), Word(61382, 0)))
    IN  Xor(y3, Shr(y3, 18))

\* rk_random(state): <<the value it returns, the state it leaves>>
RkRandom(state) ==
    LET s == IF state.pos = RK_STATE_LEN
             THEN [state EXCEPT !.regenerated = TRUE, !.pos = 0]
             ELSE state
    IN  <<Temper(KeyAt(s, s.pos)), [s EXCEPT !.pos = @ + 1]>>

\* the value of a uint32_t below 2^27, as an int32_t
ToInt(x) == x[1] * Pow2(16) + x[2]

\* rk_double(state): <<the numerator <<a, b>> of the double it returns, which
\* is (a * 2^26 + b) / 2^53 computed without rounding, the state it leaves>>
RkDouble(state) ==
    LET d1 == RkRandom(state)
        d2 == RkRandom(d1[2])
        a == ToInt(Shr(d1[1], 5))
        b == ToInt(Shr(d2[1], 6))
    IN  <<(<<a, b>>), d2[2]>>

RECURSIVE BitLength(_)
BitLength(n) == IF n = 0 THEN 0 ELSE 1 + BitLength(n \div 2)

\* (float) n for an int32_t n >= 0: the nearest integer with 24 significant
\* bits, ties to the even one
IntToFloat(n) ==
    LET s == BitLength(n) - 24
    IN  IF s <= 0 THEN n
        ELSE LET q == n \div Pow2(s)
                 r == n % Pow2(s)
                 up == r > Pow2(s - 1) \/ (r = Pow2(s - 1) /\ q % 2 = 1)
             IN  (IF up THEN q + 1 ELSE q) * Pow2(s)

\* the float (hi * 67108864.f + lo) / 9007199254740992.f for floats hi < 2^28
\* and lo <= 2^26 holding integers: <<q, k>> for the value q / 2^k.  The
\* product and the quotient are exact; the sum keeps 24 significant bits of
\* hi * 2^26 + lo, ties to even
FloatSum(hi0, lo0) ==
    LET hi == IF lo0 = Pow2(26) THEN hi0 + 1 ELSE hi0
        lo == IF lo0 = Pow2(26) THEN 0 ELSE lo0
        s == BitLength(hi) + 2
        q == IF s >= 26 THEN hi \div Pow2(s - 26)
             ELSE hi * Pow2(26 - s) + (lo \div Pow2(s))
        \* the bits dropped, as <<those of hi, those of lo>>, and half a unit
        r == IF s >= 26 THEN <<hi % Pow2(s - 26), lo>> ELSE <<0, lo % Pow2(s)>>
        half == IF s >= 27 THEN <<Pow2(s - 27), 0>> ELSE <<0, Pow2(s - 1)>>
        above == r[1] > half[1] \/ (r[1] = half[1] /\ r[2] > half[2])
        up == above \/ (r = half /\ q % 2 = 1)
    IN  IF hi = 0 THEN <<lo, 53>>
        ELSE <<IF up THEN q + 1 ELSE q, 53 - s>>

\* rk_float(state): <<the float it returns as <<q, k>> for q / 2^k, the state
\* it leaves>>, float arithmetic being done in single precision
RkFloat(state) ==
    LET d1 == RkRandom(state)
        d2 == RkRandom(d1[2])
        a == ToInt(Shr(d1[1], 5))
        b == ToInt(Shr(d2[1], 6))
    IN  <<FloatSum(IntToFloat(a), IntToFloat(b)), d2[2]>>

\* ------------------------------------------------------------------ SpecRandom
\* rk_seed_, rk_random_, rk_double_ and rk_float_ pass &rk_state_global to
\* rk_seed, rk_random, rk_double and rk_float, which touch nothing but the
\* state they are passed: a behaviour follows one rk_state_s, the process-wide
\* one or one the caller owns.

\* the seeds the callers pass
Seeds == {Word(0, s) : s \in 0 .. MaxSeed}

\* rk_state_global as the loader leaves it: static storage, all zero
ZeroState ==
    [key |-> [i \in 1 .. RK_STATE_LEN |-> Word(0, 0)], regenerated |-> FALSE, pos |-> 0]

\* draws are followed up to MaxPos words after the first regeneration
Drawable(state) == (state.pos = RK_STATE_LEN /\ ~state.regenerated) \/ state.pos < MaxPos

\* rk_seed_(seed), rk_seed(seed, state)
rk_seed_call(seed) ==
    /\ rk_state' = rk_seed(seed)
    /\ rk_seeded' = seed
    /\ rk_last' = [op |-> "rk_seed", value |-> <<>>]
    /\ UNCHANGED rk_owner

\* rk_random_(), rk_random(state)
rk_random ==
    /\ Drawable(rk_state)
    /\ LET r == RkRandom(rk_state)
       IN  /\ rk_state' = r[2]
           /\ rk_last' = [op |-> "rk_random", value |-> r[1]]
    /\ UNCHANGED <<rk_owner, rk_seeded>>

\* rk_double_(), rk_double(state)
rk_double ==
    /\ Drawable(rk_state)
    /\ LET r == RkDouble(rk_state)
       IN  /\ rk_state' = r[2]
           /\ rk_last' = [op |-> "rk_double", value |-> r[1]]
    /\ UNCHANGED <<rk_owner, rk_seeded>>

\* rk_float_(), rk_float(state)
rk_float ==
    /\ Drawable(rk_state)
    /\ LET r == RkFloat(rk_state)
       IN  /\ rk_state' = r[2]
           /\ rk_last' = [op |-> "rk_float", value |-> r[1]]
    /\ UNCHANGED <<rk_owner, rk_seeded>>

InitRandomWith(owner, state, seeded) ==
    /\ rk_owner = owner
    /\ rk_state = state
    /\ rk_seeded = seeded
    /\ rk_last = [op |-> "rk_seed", value |-> <<>>]

ParkRandom ==
    InitRandomWith("user", [key |-> <<>>, regenerated |-> FALSE, pos |-> 0], Word(0, 0))

\* the process-wide state as the loader left it, or a state the caller has
\* declared and seeded
InitRandom ==
    \/ InitRandomWith("global", ZeroState, <<>>)
    \/ \E seed \in Seeds : InitRandomWith("user", rk_seed(seed), seed)

NextRandom ==
    \/ \E seed \in Seeds : rk_seed_call(seed) /\ UNCHANGED othersOfRandom
    \/ rk_random /\ UNCHANGED othersOfRandom
    \/ rk_double /\ UNCHANGED othersOfRandom
    \/ rk_float /\ UNCHANGED othersOfRandom

\* ------------------------------------------------------------------ activation values
\* activation.h
ACTIVATION_ELU == 2
ACTIVATION_SOFTSIGN == 3
ACTIVATION_SIGMOID == 4
ACTIVATION_HARD_SIGMOID == 5
ACTIVATION_SWISH == 6
ACTIVATION_SOFTMAX == 7
ACTIVATION_TANH == 8
ACTIVATION_MAX == ACTIVATION_TANH

\* A float is held as the integer nearest to Fixed times its value: seven
\* decimals, about the precision of a float near 1.  Products and quotients
\* are cut towards zero at the seventh decimal.
Fixed == 10 ^ 7
Abs(x) == IF x < 0 THEN -x ELSE x

\* a * b for |a|, |b| below 7400 * 10^4, by halves of four decimals so that no
\* partial product leaves the range of the evaluator's integers
MulFixed(a, b) ==
    LET a1 == Abs(a) \div 10000
        a0 == Abs(a) % 10000
        b1 == Abs(b) \div 10000
        b0 == Abs(b) % 10000
        magnitude == a1 * b1 * 10 + (((a1 * b0 + a0 * b1) * 10 + ((a0 * b0) \div 1000)) \div 10000)
    IN  IF (a < 0) = (b < 0) THEN magnitude ELSE -magnitude

\* the first places decimals of r / b, for 0 <= r < b
RECURSIVE Decimals(_, _, _)
Decimals(r, b, places) ==
    IF places = 0 THEN 0
    ELSE ((r * 10) \div b) * (10 ^ (places - 1)) + Decimals((r * 10) % b, b, places - 1)

\* a / b for b # 0
DivFixed(a, b) ==
    LET magnitude == (Abs(a) \div Abs(b)) * Fixed + Decimals(Abs(a) % Abs(b), Abs(b), 7)
    IN  IF (a < 0) = (b < 0) THEN magnitude ELSE -magnitude

\* EPSILON = 1e-15f is below the last decimal kept, as it is below the last
\* bit of a float near 1
EPSILON == 0

\* expf and tanhf of libm at the arguments the test data lead to, to seven
\* decimals; the argument of the tables is in thousandths
ExpTable ==
    -4000 :> 183156 @@ -3000 :> 497871 @@ -2001 :> 1352000 @@ -2000 :> 1353353 @@
    -1999 :> 1354707 @@ -1001 :> 3675117 @@ -1000 :> 3678794 @@ -999 :> 3682475 @@
    -1 :> 9990005 @@ 0 :> 10000000 @@ 999 :> 27155649 @@ 1000 :> 27182818 @@
    1999 :> 73816707 @@ 2000 :> 73890561
TanhTable ==
    -2000 :> -9640276 @@ -1999 :> -9639569 @@ -1000 :> -7615942 @@ -999 :> -7611739 @@
    0 :> 0 @@ 1 :> 10000 @@ 1000 :> 7615942 @@ 1001 :> 7620138 @@ 2000 :> 9640276 @@
    2001 :> 9640982
Thousandths(x) == IF x < 0 THEN -(Abs(x) \div (Fixed \div 1000)) ELSE x \div (Fixed \div 1000)
expf(x) == ExpTable[Thousandths(x)]
tanhf(x) == TanhTable[Thousandths(x)]

\* the largest element of layer[from ..], layer_max being the largest so far
RECURSIVE LayerMax(_, _, _)
LayerMax(layer, from, layer_max) ==
    IF from \notin DOMAIN layer THEN layer_max
    ELSE LayerMax(layer, from + 1, IF layer[from] > layer_max THEN layer[from] ELSE layer_max)

\* exp_sum after the loop has added layer[from ..]
RECURSIVE ExpSum(_, _)
ExpSum(layer, from) ==
    IF from \notin DOMAIN layer THEN 0 ELSE layer[from] + ExpSum(layer, from + 1)

\* activation_forward(activation, layer, layer_length, NULL) whose calloc of
\* _derivatives_temp succeeds: [layer, _derivatives_temp] after the call
ActivationForwardValues(a, layer) ==
    LET temp == IF a._derivatives_temp = NullBuf THEN Calloc(Cardinality(DOMAIN layer))
                ELSE a._derivatives_temp
        shifted == [i \in DOMAIN layer |-> expf(layer[i] - LayerMax(layer, 0, layer[0]))]
    IN  IF a.type = ACTIVATION_LINEAR
        THEN [layer |-> [i \in DOMAIN layer |->
                            (IF a.linear_alpha # Fixed THEN MulFixed(layer[i], a.linear_alpha)
                             ELSE layer[i])
                            + a.linear_const],
              temp |-> temp]
        ELSE IF a.type = ACTIVATION_RELU
        THEN [layer |-> [i \in DOMAIN layer |->
                            IF layer[i] < 0 THEN MulFixed(layer[i], a.relu_leak)
                            ELSE layer[i]],
              temp |-> layer]
        ELSE IF a.type = ACTIVATION_ELU
        THEN [layer |-> [i \in DOMAIN layer |->
                            IF layer[i] >= 0 THEN layer[i]
                            ELSE IF a.elu_alpha # 0
                            THEN MulFixed(a.elu_alpha, expf(layer[i]) - Fixed)
                            ELSE 0],
              temp |-> layer]
        ELSE IF a.type = ACTIVATION_SOFTSIGN
        THEN [layer |-> [i \in DOMAIN layer |->
                            DivFixed(layer[i], Abs(layer[i]) + Fixed + EPSILON)],
              temp |-> [i \in DOMAIN layer |-> Abs(layer[i]) + Fixed]]
        ELSE IF a.type = ACTIVATION_SIGMOID
        THEN [layer |-> [i \in DOMAIN layer |-> DivFixed(Fixed, Fixed + expf(-layer[i]))],
              temp |-> temp]
        ELSE IF a.type = ACTIVATION_HARD_SIGMOID
        THEN [layer |-> [i \in DOMAIN layer |->
                            IF layer[i] < -((5 * Fixed) \div 2) THEN 0
                            ELSE IF layer[i] > (5 * Fixed) \div 2 THEN Fixed
                            ELSE MulFixed(Fixed \div 5, layer[i]) + (Fixed \div 2)],
              temp |-> layer]
        ELSE IF a.type = ACTIVATION_SWISH
        THEN [layer |-> [i \in DOMAIN layer |->
                            MulFixed(layer[i],
                                     DivFixed(a.swish_beta,
                                              Fixed + expf(-layer[i]) + EPSILON + EPSILON))],
              temp |-> [i \in DOMAIN layer |-> Fixed + expf(-layer[i])]]
        ELSE IF a.type = ACTIVATION_SOFTMAX
        THEN [layer |-> [i \in DOMAIN layer |-> DivFixed(shifted[i], ExpSum(shifted, 0))],
              temp |-> temp]
        ELSE [layer |-> [i \in DOMAIN layer |-> tanhf(layer[i])], temp |-> temp]

\* the ELU branch of activation_backward, were it to write alpha alone for x < 0
EluDerivativeFlat(a, x, activated) == IF x < 0 THEN a.elu_alpha ELSE Fixed

\* the ELU branch of activation_backward for one element: x is the saved
\* input, activated the element of layer_activated
EluDerivative(a, x, activated) == IF x < 0 THEN activated + a.elu_alpha ELSE Fixed

\* activation_backward(activation, layer_activated, length, NULL) when
\* _derivatives_temp is not NULL: what it leaves in layer_activated, for
\* softmax the length x length matrix in row-major order
ActivationBackwardValues(a, layer_activated, length) ==
    LET temp == a._derivatives_temp
        each == 0 .. (length - 1)
    IN  IF a.type = ACTIVATION_LINEAR
        THEN [i \in each |-> a.linear_alpha]
        ELSE IF a.type = ACTIVATION_RELU
        THEN [i \in each |-> IF temp[i] < 0 THEN a.relu_leak ELSE Fixed]
        ELSE IF a.type = ACTIVATION_ELU
        THEN [i \in each |-> EluDerivative(a, temp[i], layer_activated[i])]
        ELSE IF a.type = ACTIVATION_SOFTSIGN
        THEN [i \in each |-> DivFixed(Fixed, MulFixed(temp[i], temp[i]) + EPSILON)]
        ELSE IF a.type = ACTIVATION_SIGMOID
        THEN [i \in each |-> MulFixed(layer_activated[i], Fixed - layer_activated[i])]
        ELSE IF a.type = ACTIVATION_HARD_SIGMOID
        THEN [i \in each |->
                IF temp[i] < -((5 * Fixed) \div 2) \/ temp[i] > (5 * Fixed) \div 2 THEN 0
                ELSE Fixed \div 5]
        ELSE IF a.type = ACTIVATION_SWISH
        THEN [i \in each |->
                layer_activated[i]
                + MulFixed(DivFixed(Fixed, temp[i] + EPSILON),
                           a.swish_beta - layer_activated[i])]
        ELSE IF a.type = ACTIVATION_SOFTMAX
        THEN [k \in 0 .. (length * length - 1) |->
                MulFixed(layer_activated[k \div length],
                         (IF k \div length = k % length THEN Fixed ELSE 0)
                         - layer_activated[k % length])]
        ELSE [i \in each |-> Fixed - MulFixed(layer_activated[i], layer_activated[i])]

\* _derivatives_temp after activation_backward: softmax copies the activated
\* layer into it
BackwardTemp(a, layer_activated, length) ==
    IF a.type = ACTIVATION_SOFTMAX
    THEN [i \in DOMAIN a._derivatives_temp |->
            IF i < length THEN layer_activated[i] ELSE a._derivatives_temp[i]]
    ELSE a._derivatives_temp

\* ------------------------------------------------------------------ SpecCheck
\* test.c
PERTURB_H == Fixed \div 1000

\* the activation_s check_activation tests, after the switch that sets the
\* parameters of its type; the parameters of the other types, which the
\* branch of this type never reads, are as calloc left them
CheckedActivation(type) ==
    [type |-> type,
     linear_alpha |-> IF type = ACTIVATION_LINEAR THEN Fixed \div 2 ELSE 0,
     linear_const |-> IF type = ACTIVATION_LINEAR THEN Fixed ELSE 0,
     relu_leak |-> IF type = ACTIVATION_RELU THEN Fixed \div 10 ELSE 0,
     elu_alpha |-> IF type = ACTIVATION_ELU THEN Fixed \div 10 ELSE 0,
     swish_beta |-> IF type = ACTIVATION_SWISH THEN 2 * Fixed ELSE 0,
     _derivatives_temp |-> NullBuf]

\* test_data = {-2.f, -1.f, 0.f, 1.f, 2.f} of test_activation_full
TestGrid == {-2 * Fixed, -Fixed, 0, Fixed, 2 * Fixed}
TestData == [i \in 0 .. 4 |-> (i - 2) * Fixed]

\* check_activation up to its switch: the data copied, and perturbed
check_init(type, test_data) ==
    /\ ca_activation = CheckedActivation(type)
    /\ ca_data = test_data
    /\ ca_forward = test_data
    /\ ca_temp = [i \in DOMAIN test_data |-> test_data[i] + PERTURB_H]
    /\ ca_pc = "forward"

\* activation_forward(activation, test_temp_forward, ...), then
\* activation_forward(activation, test_temp, ...)
check_forward ==
    \/ /\ ca_pc = "forward"
       /\ LET r == ActivationForwardValues(ca_activation, ca_forward)
          IN  /\ ca_forward' = r.layer
              /\ ca_activation' = [ca_activation EXCEPT !._derivatives_temp = r.temp]
       /\ ca_pc' = "forward_epsilon"
       /\ UNCHANGED <<ca_data, ca_temp>>
    \/ /\ ca_pc = "forward_epsilon"
       /\ LET r == ActivationForwardValues(ca_activation, ca_temp)
          IN  /\ ca_temp' = r.layer
              /\ ca_activation' = [ca_activation EXCEPT !._derivatives_temp = r.temp]
       /\ ca_pc' = "approximation"
       /\ UNCHANGED <<ca_data, ca_forward>>

\* test_temp[i] = (test_temp[i] - test_temp_forward[i]) / PERTURB_H
check_approximation ==
    /\ ca_pc = "approximation"
    /\ ca_temp' = [i \in DOMAIN ca_temp |-> DivFixed(ca_temp[i] - ca_forward[i], PERTURB_H)]
    /\ ca_pc' = "backward"
    /\ UNCHANGED <<ca_activation, ca_data, ca_forward>>

\* activation_backward(activation, test_temp_forward, test_data_length, NULL)
check_backward ==
    /\ ca_pc = "backward"
    /\ ca_forward' = ActivationBackwardValues(ca_activation, ca_forward,
                                              Cardinality(DOMAIN ca_data))
    /\ ca_activation' = [ca_activation EXCEPT
                            !._derivatives_temp =
                                BackwardTemp(ca_activation, ca_forward,
                                             Cardinality(DOMAIN ca_data))]
    /\ ca_pc' = "check_match"
    /\ UNCHANGED <<ca_data, ca_temp>>

ParkCheck == check_init(ACTIVATION_LINEAR, [i \in {0} |-> 0])

\* every type on the data of test_activation_full and on every layer of at
\* most MaxLayer elements of its grid
InitCheck ==
    \E type \in ACTIVATION_LINEAR .. ACTIVATION_MAX :
        \/ check_init(type, TestData)
        \/ \E length \in 1 .. MaxLayer :
               \E test_data \in [0 .. (length - 1) -> TestGrid] : check_init(type, test_data)

NextCheck ==
    \/ check_forward /\ UNCHANGED othersOfCheck
    \/ check_approximation /\ UNCHANGED othersOfCheck
    \/ check_backward /\ UNCHANGED othersOfCheck

\* ------------------------------------------------------------------ flower calls
\* loss.h
LOSS_CATEGORICAL_CROSSENTROPY == 5
LOSS_MAX == LOSS_CATEGORICAL_CROSSENTROPY

\* flower->_loss: NULL until a flower_train call allocates it; buffers says
\* whether loss_forward has allocated loss and the two _derivatives_temp
NoLoss == [allocated |-> FALSE, type |-> 0, buffers |-> FALSE]

\* the gradient petal_backward adds to every element of an accumulator for
\* the sample of index sample_index: a value that names the sample
SampleGradient(sample_index) == sample_index + 1

\* the sum of the gradients of the samples from .. to - 1
RECURSIVE BatchGradient(_, _)
BatchGradient(from, to) ==
    IF from >= to THEN 0 ELSE SampleGradient(from) + BatchGradient(from + 1, to)

\* a dense petal after petal_init: weights of weights_length elements and
\* bias weights of bias_length, both trainable or both not, an activation
\* whose _derivatives_temp is not allocated yet (temp)
CallPetal(trainable, weights_length, bias_length) ==
    [weights |-> WeightsCheckInit(trainable, weights_length, 1),
     bias_weights |-> WeightsCheckInit(trainable, bias_length, 0),
     temp |-> FALSE, error_code |-> ERROR_NONE]

\* flower_init on two such petals
FlowerInit(trainable_0, trainable_1) ==
    [petals_length |-> 2,
     petals |-> [i \in 0 .. 1 |->
                    IF i = 0 THEN CallPetal(trainable_0, 2, 1)
                    ELSE CallPetal(trainable_1, 1, 1)],
     error_code |-> ERROR_NONE, _loss |-> NoLoss,
     evaluated |-> <<>>, predicted |-> "NULL"]

\* petal_backward of a dense petal for one sample, as far as the records of
\* the petal go: the gradient sums of its trainable records
PetalBackwardSums(p, sample_index) ==
    IF ~p.temp THEN [p EXCEPT !.error_code = ERROR_ACTIVATION_NO_TEMP]
    ELSE [p EXCEPT
            !.weights = AccumulateGradients(@, [i \in DOMAIN @.weights |->
                                                  SampleGradient(sample_index)]),
            !.bias_weights = AccumulateGradients(@, [i \in DOMAIN @.weights |->
                                                       SampleGradient(sample_index)])]

\* the backward loop of a sample from petal_i down to 0, with its error check
RECURSIVE BackwardLoop(_, _, _)
BackwardLoop(f, petal_i, sample_index) ==
    IF petal_i < 0 THEN f
    ELSE LET p == PetalBackwardSums(f.petals[petal_i], sample_index)
             g == [f EXCEPT !.petals[petal_i] = p]
         IN  IF p.error_code # ERROR_NONE THEN [g EXCEPT !.error_code = p.error_code]
             ELSE BackwardLoop(g, petal_i - 1, sample_index)

\* the weights update loop of a batch from petal_i on: [flower, returned].
\* fail names the calloc that fails, <<petal, record, buffer>>, or is <<>>
RECURSIVE UpdateLoop(_, _, _, _)
UpdateLoop(f, petal_i, optimizer, fail) ==
    IF petal_i >= f.petals_length THEN [flower |-> f, returned |-> FALSE]
    ELSE LET first == WeightsUpdate(f.petals[petal_i].weights, optimizer,
                                    fail # <<petal_i, "weights", "velocities_or_cache">>,
                                    fail # <<petal_i, "weights", "moments">>)
             second == WeightsUpdate(f.petals[petal_i].bias_weights, optimizer,
                                     fail # <<petal_i, "bias_weights", "velocities_or_cache">>,
                                     fail # <<petal_i, "bias_weights", "moments">>)
             g == [f EXCEPT !.petals[petal_i].weights = first[1]]
             h == [g EXCEPT !.petals[petal_i].bias_weights = second[1]]
         IN  IF first[2] # ERROR_NONE
             THEN [flower |-> [g EXCEPT !.error_code = first[2]], returned |-> TRUE]
             ELSE IF second[2] # ERROR_NONE
             THEN [flower |-> [h EXCEPT !.error_code = second[2]], returned |-> TRUE]
             ELSE UpdateLoop(h, petal_i + 1, optimizer, fail)

\* loss_forward on flower->_loss: [_loss, ret]
LossForwardCall(loss, loss_ok) ==
    IF ~loss.buffers /\ ~loss_ok THEN [_loss |-> loss, ret |-> ERROR_MALLOC]
    ELSE [_loss |-> [loss EXCEPT !.buffers = TRUE], ret |-> ERROR_NONE]

\* the optimizer_s records flower_train is called with
SessionOptimizers ==
    {o \in Optimizers :
        o.momentum = 0 /\ o.type \in {OPTIMIZER_SGD_MOMENTUM, OPTIMIZER_ADAM, OPTIMIZER_MAX + 1}}

\* the arguments of a flower_train call: train_length is MaxSessionTrain,
\* epochs is SessionEpochs, a validation set has one sample and no validation
\* set has no labels
TrainCalls ==
    {args \in {[loss_type |-> loss_type, optimizer |-> optimizer, train_sparse |-> train_sparse,
      validation_sparse |-> validation_sparse, validation_length |-> validation_length,
      train_length |-> MaxSessionTrain, batch_size |-> batch_size, epochs |-> epochs] :
        loss_type \in {LOSS_MEAN_SQUARED_ERROR, LOSS_MAX, LOSS_MAX + 1},
        optimizer \in SessionOptimizers,
        train_sparse \in BOOLEAN, validation_sparse \in BOOLEAN,
        validation_length \in {0, 1},
        batch_size \in 1 .. MaxSessionTrain, epochs \in {SessionEpochs}} :
        args.validation_length = 0 => ~args.validation_sparse}

\* fs_args between calls: the arguments are gone when flower_train returns
NoCall == CHOOSE args \in TrainCalls : TRUE

\* the locals of flower_train before its entry and after its return
NoLocals ==
    [epoch_index |-> 0, batch_index |-> 0, sample_index |-> 0,
     sample_index_from |-> 0, sample_index_to |-> 0,
     validation_index |-> 0, batches_per_epoch |-> 0, output_temp |-> FALSE]

\* the entry of flower_train, down to the epoch loop; a calloc or malloc
\* fails (loss_ok, output_temp_ok false) only where the code makes it
flower_train_entry(args, loss_ok, output_temp_ok) ==
    LET wrong_type == ~fs_flower._loss.allocated /\ args.loss_type > LOSS_MAX
        no_loss == ~fs_flower._loss.allocated /\ ~wrong_type /\ ~loss_ok
        _loss == IF fs_flower._loss.allocated \/ wrong_type \/ no_loss THEN fs_flower._loss
                 ELSE [allocated |-> TRUE, type |-> args.loss_type, buffers |-> FALSE]
        no_temp == ~wrong_type /\ ~no_loss /\ args.train_sparse /\ ~output_temp_ok
        batches_per_epoch == BatchesPerEpoch(args.train_length, args.batch_size, 0)
        code == IF wrong_type THEN ERROR_LOSS_WRONG_TYPE
                ELSE IF no_loss \/ no_temp THEN ERROR_MALLOC
                ELSE IF batches_per_epoch = 0 THEN ERROR_WRONG_BATCH_SIZE
                ELSE ERROR_NONE
    IN  /\ fs_pc = "idle"
        /\ fs_calls < MaxTrainCalls
        /\ ~loss_ok => ~fs_flower._loss.allocated /\ ~wrong_type
        /\ ~output_temp_ok => ~wrong_type /\ loss_ok /\ args.train_sparse
        /\ fs_calls' = fs_calls + 1
        /\ fs_args' = IF code # ERROR_NONE THEN NoCall ELSE args
        /\ fs_flower' = [fs_flower EXCEPT !._loss = _loss,
                                          !.error_code = IF code # ERROR_NONE THEN code ELSE @]
        /\ fs_pc' = IF code # ERROR_NONE THEN "idle" ELSE "epoch"
        /\ fs_loop' = IF code # ERROR_NONE THEN NoLocals
                      ELSE [NoLocals EXCEPT !.batches_per_epoch = batches_per_epoch,
                                            !.output_temp = args.train_sparse]
        /\ fs_last' = [fs_last EXCEPT !.op = IF code # ERROR_NONE THEN "refused"
                                             ELSE "flower_train",
                                      !.asked = args.loss_type]

\* the head of the epoch loop, shuffle_2d included: a sample index names a
\* row of the arrays, whatever the shuffle left in it
epoch_head ==
    /\ fs_pc = "epoch"
    /\ IF fs_loop.epoch_index < fs_args.epochs
       THEN /\ fs_pc' = "batch"
            /\ fs_loop' = [fs_loop EXCEPT !.batch_index = 0]
            /\ fs_last' = [fs_last EXCEPT !.op = "shuffle_2d"]
       ELSE /\ fs_pc' = "idle"
            /\ fs_last' = [fs_last EXCEPT !.op = "returned"]
            /\ fs_loop' = NoLocals
    /\ fs_args' = IF fs_pc' = "idle" THEN NoCall ELSE fs_args
    /\ UNCHANGED <<fs_flower, fs_calls>>

\* the head of the batch loop
batch_head ==
    LET from == SampleIndexFrom(fs_loop.batch_index, fs_args.batch_size)
        to == SampleIndexTo(fs_loop.batch_index, fs_args.batch_size, fs_args.train_length)
    IN  /\ fs_pc = "batch"
        /\ IF fs_loop.batch_index >= fs_loop.batches_per_epoch
           THEN /\ fs_pc' = "epoch"
                /\ fs_loop' = [fs_loop EXCEPT !.epoch_index = U32(@ + 1)]
           ELSE IF to <= from
           THEN /\ fs_loop' = [fs_loop EXCEPT !.batch_index = U32(@ + 1)]
                /\ UNCHANGED fs_pc
           ELSE /\ fs_pc' = "sample"
                /\ fs_loop' = [fs_loop EXCEPT !.sample_index_from = from,
                                              !.sample_index_to = to,
                                              !.sample_index = from]
        /\ fs_last' = [fs_last EXCEPT !.op = "batch"]
        /\ UNCHANGED <<fs_flower, fs_args, fs_calls>>

\* one sample of the training stage: flower_forward(..., true), the labels,
\* loss_forward, loss_backward and the backward loop.  With sparse training
\* labels output_temp was allocated at the entry
training_sample(fail_at, loss_ok) ==
    LET f == FlowerForward([fs_flower EXCEPT !.evaluated = <<>>], 0, fail_at)
        l == LossForwardCall(f._loss, loss_ok)
        b == BackwardLoop([f EXCEPT !._loss = l._loss], f.petals_length - 1,
                          fs_loop.sample_index)
        next == U32(fs_loop.sample_index + 1)
    IN  /\ fs_pc = "sample"
        /\ fail_at < fs_flower.petals_length => ~fs_flower.petals[fail_at].temp
        /\ ~loss_ok => ~fs_flower._loss.buffers /\ f.predicted # "NULL"
        /\ IF f.predicted = "NULL"
           THEN /\ fs_flower' = f
                /\ fs_pc' = "idle"
                /\ fs_last' = [fs_last EXCEPT !.op = "flower_forward"]
                /\ fs_loop' = NoLocals
           ELSE IF l.ret # ERROR_NONE
           THEN /\ fs_flower' = [f EXCEPT !.error_code = l.ret]
                /\ fs_pc' = "idle"
                /\ fs_last' = [fs_last EXCEPT !.op = "loss_forward"]
                /\ fs_loop' = NoLocals
           ELSE /\ fs_flower' = b
                /\ fs_last' = [fs_last EXCEPT !.op = "petal_backward",
                                              !.loss_type = l._loss.type]
                /\ IF b.error_code # f.error_code
                   THEN fs_pc' = "idle" /\ fs_loop' = NoLocals
                   ELSE /\ fs_loop' = [fs_loop EXCEPT !.sample_index = next]
                        /\ fs_pc' = IF next < fs_loop.sample_index_to
                                    THEN "sample" ELSE "update"
        /\ fs_args' = IF fs_pc' = "idle" THEN NoCall ELSE fs_args
        /\ UNCHANGED fs_calls

\* the weights update stage of a batch
weights_update_stage(fail) ==
    LET u == UpdateLoop(fs_flower, 0, fs_args.optimizer, fail)
    IN  /\ fs_pc = "update"
        /\ fail # <<>> => u.returned
        /\ fs_flower' = u.flower
        /\ fs_pc' = IF u.returned THEN "idle"
                    ELSE IF fs_args.validation_length > 0 THEN "validation"
                    ELSE "metrics"
        /\ fs_loop' = IF u.returned THEN NoLocals
                      ELSE [fs_loop EXCEPT !.validation_index = 0]
        /\ fs_last' = [fs_last EXCEPT !.op = "weights_update"]
        /\ fs_args' = IF fs_pc' = "idle" THEN NoCall ELSE fs_args
        /\ UNCHANGED fs_calls

\* one sample of the validation stage: flower_forward(..., false), the labels
\* and loss_forward.  labels_to_petal_output stores through output_temp; with
\* output_temp NULL the store is undefined: the process faults, or goes on
\* (survives)
validation_sample(fail_at, loss_ok, survives) ==
    LET f == FlowerForward([fs_flower EXCEPT !.evaluated = <<>>], 0, fail_at)
        null_store == fs_args.validation_sparse /\ ~fs_loop.output_temp
        l == LossForwardCall(f._loss, loss_ok)
        next == U32(fs_loop.validation_index + 1)
    IN  /\ fs_pc = "validation"
        /\ fail_at < fs_flower.petals_length => ~fs_flower.petals[fail_at].temp
        /\ ~loss_ok => ~fs_flower._loss.buffers /\ f.predicted # "NULL"
        /\ ~survives => null_store /\ f.predicted # "NULL"
        /\ IF f.predicted = "NULL"
           THEN /\ fs_flower' = f
                /\ fs_pc' = "idle"
                /\ fs_last' = [fs_last EXCEPT !.op = "flower_forward"]
                /\ fs_loop' = NoLocals
           ELSE IF null_store /\ ~survives
           THEN /\ fs_flower' = f
                /\ fs_pc' = "crash"
                /\ fs_last' = [fs_last EXCEPT !.op = "labels_to_petal_output",
                                              !.null_output_temp = TRUE]
                /\ UNCHANGED fs_loop
           ELSE /\ fs_flower' = [f EXCEPT !._loss = l._loss,
                                          !.error_code = IF l.ret # ERROR_NONE
                                                         THEN l.ret ELSE @]
                /\ fs_last' = [fs_last EXCEPT
                                  !.op = "validation", !.loss_type = l._loss.type,
                                  !.null_output_temp = @ \/ null_store]
                /\ fs_loop' = IF l.ret # ERROR_NONE THEN NoLocals
                              ELSE [fs_loop EXCEPT !.validation_index = next]
                /\ fs_pc' = IF l.ret # ERROR_NONE THEN "idle"
                            ELSE IF next < fs_args.validation_length THEN "validation"
                            ELSE "metrics"
        /\ fs_args' = IF fs_pc' = "idle" THEN NoCall ELSE fs_args
        /\ UNCHANGED fs_calls

\* metrics_calculate_batch, the end of the batch
metrics_stage ==
    /\ fs_pc = "metrics"
    /\ fs_loop' = [fs_loop EXCEPT !.batch_index = U32(@ + 1)]
    /\ fs_pc' = "batch"
    /\ fs_last' = [fs_last EXCEPT !.op = "metrics_calculate_batch"]
    /\ UNCHANGED <<fs_flower, fs_args, fs_calls>>

\* mutant of flower_predict: the forward pass is followed by the backward loop
flower_predict_backward(fail_at) ==
    /\ fs_pc = "idle"
    /\ fail_at < fs_flower.petals_length => ~fs_flower.petals[fail_at].temp
    /\ fs_flower' = BackwardLoop(FlowerForward([fs_flower EXCEPT !.evaluated = <<>>], 0, fail_at),
                                 fs_flower.petals_length - 1, 0)
    /\ fs_last' = [fs_last EXCEPT !.op = "flower_predict"]
    /\ UNCHANGED <<fs_args, fs_pc, fs_loop, fs_calls>>

\* flower_predict(flower, input) between two flower_train calls
flower_predict(fail_at) ==
    /\ fs_pc = "idle"
    /\ fail_at < fs_flower.petals_length => ~fs_flower.petals[fail_at].temp
    /\ fs_flower' = FlowerForward([fs_flower EXCEPT !.evaluated = <<>>], 0, fail_at)
    /\ fs_last' = [fs_last EXCEPT !.op = "flower_predict"]
    /\ UNCHANGED <<fs_args, fs_pc, fs_loop, fs_calls>>

\* ------------------------------------------------------------------ SpecSession
InitSessionWith(flower) ==
    /\ fs_flower = flower
    /\ fs_args = NoCall
    /\ fs_pc = "idle"
    /\ fs_loop = NoLocals
    /\ fs_last = [op |-> "flower_init", loss_type |-> 0, null_output_temp |-> FALSE,
                  asked |-> 0]
    /\ fs_calls = 0

ParkSession == InitSessionWith(FlowerInit(FALSE, FALSE))

\* the first petal's records are trainable or frozen, the last petal's are
\* trainable
InitSession ==
    \E trainable_0 \in BOOLEAN : InitSessionWith(FlowerInit(trainable_0, TRUE))

\* the callocs of the weights update stage that can fail
UpdateFailures ==
    {<<>>} \cup {<<petal_i, record, buffer>> :
                    petal_i \in 0 .. 1, record \in {"weights", "bias_weights"},
                    buffer \in {"velocities_or_cache", "moments"}}

NextSession ==
    \/ \E args \in TrainCalls, loss_ok \in BOOLEAN, output_temp_ok \in BOOLEAN :
           flower_train_entry(args, loss_ok, output_temp_ok) /\ UNCHANGED othersOfSession
    \/ epoch_head /\ UNCHANGED othersOfSession
    \/ batch_head /\ UNCHANGED othersOfSession
    \/ \E fail_at \in 0 .. 2, loss_ok \in BOOLEAN :
           training_sample(fail_at, loss_ok) /\ UNCHANGED othersOfSession
    \/ \E fail \in UpdateFailures :
           weights_update_stage(fail) /\ UNCHANGED othersOfSession
    \/ \E fail_at \in 0 .. 2, loss_ok \in BOOLEAN, survives \in BOOLEAN :
           validation_sample(fail_at, loss_ok, survives) /\ UNCHANGED othersOfSession
    \/ metrics_stage /\ UNCHANGED othersOfSession
    \/ \E fail_at \in 0 .. 2 : flower_predict(fail_at) /\ UNCHANGED othersOfSession

\* ------------------------------------------------------------------ weights_init
\* weights.h, errors.h
WEIGHTS_INIT_CONSTANT == 0
WEIGHTS_INIT_RANDOM_UNIFORM == 1
WEIGHTS_INIT_RANDOM_GAUSSIAN == 2
WEIGHTS_INIT_XAVIER_GLOROT_UNIFORM == 3
WEIGHTS_INIT_XAVIER_GLOROT_GAUSSIAN == 4
WEIGHTS_INIT_KAIMING_HE_UNIFORM == 5
WEIGHTS_INIT_KAIMING_HE_GAUSSIAN == 6
WEIGHTS_INIT_MAX == WEIGHTS_INIT_KAIMING_HE_GAUSSIAN
ERROR_PETAL_WRONG_WEIGHTS_INIT == 3

\* the largest k in lo .. hi with k * k <= n
RECURSIVE SqrtSearch(_, _, _)
SqrtSearch(n, lo, hi) ==
    IF lo = hi THEN lo
    ELSE LET mid == (lo + hi + 1) \div 2
         IN  IF mid * mid <= n THEN SqrtSearch(n, mid, hi) ELSE SqrtSearch(n, lo, mid - 1)

\* sqrtf on the fixed-point values, to three decimals
sqrtf(x) == SqrtSearch(x \div 10, 0, 46340) * (Fixed \div 1000)

\* logf at the values of rsq the draws below produce
LogTable == 250 :> -13862944 @@ 500 :> -6931472
logf(x) == LogTable[Thousandths(x)]

\* (float) rand() / (float) RAND_MAX at five points of [0, 1]
RandUnit == {(k * Fixed) \div 4 : k \in 0 .. 4}

\* the x and y of the iteration that leaves the do-while loop of the Gaussian
\* branch: rsq < 1 and rsq # 0; the iterations before it store nothing
GaussianPairs ==
    {xy \in {2 * r - Fixed : r \in RandUnit} \X {2 * r - Fixed : r \in RandUnit} :
        LET rsq == MulFixed(xy[1], xy[1]) + MulFixed(xy[2], xy[2])
        IN  ~(rsq >= Fixed \/ rsq = 0)}

\* the rand() results one weights_init call consumes, by branch
UniformDraws(length_total) == [0 .. (length_total - 1) -> RandUnit]
GaussianDraws(length_total) == [0 .. ((length_total - 1) \div 2) -> GaussianPairs]

\* the element the uniform branch stores from the draw r
UniformElement(w, r) == MulFixed(MulFixed(r, 2 * Fixed), w.deviation) + w.center - w.deviation

\* the element the Gaussian branch stores at i from the pair of i's iteration
GaussianElement(w, xy, i) ==
    LET rsq == MulFixed(xy[1], xy[1]) + MulFixed(xy[2], xy[2])
        f == sqrtf(DivFixed(MulFixed(-2 * Fixed, logf(rsq)), rsq))
    IN  MulFixed(MulFixed(xy[(i % 2) + 1], f), w.deviation) + w.center

\* the constant, uniform and Gaussian branches of weights_init on a record
\* whose buffer exists, under the initializer given: <<the record, the code>>
WeightsInitBase(w, initializer, uniform, gaussian) ==
    IF initializer = WEIGHTS_INIT_CONSTANT
    THEN <<[w EXCEPT !.weights = [i \in DOMAIN @ |-> w.center]], ERROR_NONE>>
    ELSE IF initializer = WEIGHTS_INIT_RANDOM_UNIFORM
    THEN <<[w EXCEPT !.weights = [i \in DOMAIN @ |-> UniformElement(w, uniform[i])]], ERROR_NONE>>
    ELSE IF initializer = WEIGHTS_INIT_RANDOM_GAUSSIAN
    THEN <<[w EXCEPT !.weights = [i \in DOMAIN @ |-> GaussianElement(w, gaussian[i \div 2], i)]],
           ERROR_NONE>>
    ELSE <<w, ERROR_PETAL_WRONG_WEIGHTS_INIT>>

\* float limit = sqrtf((Xavier ? 6.f : 2.f) / (float) length_total)
InitLimit(w) ==
    sqrtf(DivFixed((IF w.initializer \in {WEIGHTS_INIT_XAVIER_GLOROT_UNIFORM,
                                           WEIGHTS_INIT_XAVIER_GLOROT_GAUSSIAN}
                    THEN 6 ELSE 2) * Fixed,
                   w.length_total * Fixed))

\* the initializer the Xavier and Kaiming branch starts from
BaseInitializer(w) ==
    IF w.initializer \in {WEIGHTS_INIT_XAVIER_GLOROT_UNIFORM, WEIGHTS_INIT_KAIMING_HE_UNIFORM}
    THEN WEIGHTS_INIT_RANDOM_UNIFORM
    ELSE WEIGHTS_INIT_RANDOM_GAUSSIAN

\* weights_init(weights, from_self) on a non-NULL record: <<the record, the code
\* returned, the buffer after the base initializer>>
WeightsInit(w, weights_ok, uniform, gaussian) ==
    IF w.weights = NullBuf /\ ~weights_ok THEN <<w, ERROR_MALLOC, NullBuf>>
    ELSE LET w1 == IF w.weights = NullBuf THEN [w EXCEPT !.weights = Calloc(w.length_total)] ELSE w
         IN  IF w.initializer \in {WEIGHTS_INIT_XAVIER_GLOROT_UNIFORM, WEIGHTS_INIT_KAIMING_HE_UNIFORM,
                                   WEIGHTS_INIT_XAVIER_GLOROT_GAUSSIAN, WEIGHTS_INIT_KAIMING_HE_GAUSSIAN}
             THEN LET base == WeightsInitBase(w1, BaseInitializer(w1), uniform, gaussian)[1]
                  IN  <<[base EXCEPT !.weights = [i \in DOMAIN @ |-> MulFixed(@[i], InitLimit(w1))]],
                        ERROR_NONE, base.weights>>
             ELSE LET b == WeightsInitBase(w1, w1.initializer, uniform, gaussian)
                  IN  <<b[1], b[2], b[1].weights>>

\* the draws a call may consume: those of the branch it takes vary, the others
\* are not drawn
DrawsOf(w) ==
    LET u0 == [i \in 0 .. (w.length_total - 1) |-> 0]
        g0 == [i \in 0 .. ((w.length_total - 1) \div 2) |-> CHOOSE xy \in GaussianPairs : TRUE]
        branch == IF w.initializer \in {WEIGHTS_INIT_XAVIER_GLOROT_UNIFORM, WEIGHTS_INIT_KAIMING_HE_UNIFORM,
                                        WEIGHTS_INIT_XAVIER_GLOROT_GAUSSIAN, WEIGHTS_INIT_KAIMING_HE_GAUSSIAN}
                  THEN BaseInitializer(w) ELSE w.initializer
    IN  IF branch = WEIGHTS_INIT_RANDOM_UNIFORM THEN UniformDraws(w.length_total) \X {g0}
        ELSE IF branch = WEIGHTS_INIT_RANDOM_GAUSSIAN THEN {u0} \X GaussianDraws(w.length_total)
        ELSE {<<u0, g0>>}

weights_init(weights_ok, draws) ==
    /\ ~weights_ok => wi.weights = NullBuf
    /\ wi' = WeightsInit(wi, weights_ok, draws[1], draws[2])[1]
    /\ wi_last' = [op |-> "weights_init",
                   ret |-> WeightsInit(wi, weights_ok, draws[1], draws[2])[2],
                   base |-> WeightsInit(wi, weights_ok, draws[1], draws[2])[3]]

\* ------------------------------------------------------------------ SpecInit
InitInitWith(initializer, length_total, center, deviation) ==
    /\ wi = [initializer |-> initializer, length_total |-> length_total,
             center |-> center, deviation |-> deviation, weights |-> NullBuf]
    /\ wi_last = [op |-> "weights_check_init", ret |-> ERROR_NONE, base |-> NullBuf]

ParkInit == InitInitWith(WEIGHTS_INIT_CONSTANT, 1, 0, 0)

InitInit ==
    \E initializer \in 0 .. (WEIGHTS_INIT_MAX + 1), length_total \in 1 .. MaxInitLen,
       center \in {0, Fixed}, deviation \in {Fixed \div 2, Fixed} :
        InitInitWith(initializer, length_total, center, deviation)

NextInit ==
    \/ \E weights_ok \in BOOLEAN, draws \in DrawsOf(wi) :
           weights_init(weights_ok, draws) /\ UNCHANGED othersOfInit

\* ------------------------------------------------------------------ petal forward by shape
\* petal.h
PETAL_TYPE_NORMALIZE_ALL == 1
PETAL_TYPE_NORMALIZE_IN_ROWS == 2
PETAL_TYPE_NORMALIZE_IN_CHANNELS == 3

\* petal_init for a petal without weights, activation and dropout whose input
\* and output shapes are rows x cols x depth: length is their product, output
\* is calloc'ed at that length; center = deviation = 1
LayerInit(petal_type, rows, cols, depth) ==
    [petal_type |-> petal_type, rows |-> rows, cols |-> cols, depth |-> depth,
     length |-> rows * cols * depth, center |-> 1, deviation |-> 1,
     output |-> Calloc(rows * cols * depth), error_code |-> ERROR_NONE]

\* min_value and max_value as the scans over the given indices leave them
MinValue(input, indices) == CHOOSE m \in {input[i] : i \in indices} : \A i \in indices : m <= input[i]
MaxValue(input, indices) == CHOOSE m \in {input[i] : i \in indices} : \A i \in indices : m >= input[i]

\* ((x - min) / (max - min + EPSILON)) * 2 * deviation + center - deviation;
\* with max = min the quotient is 0 / EPSILON
Normalized(p, x, min_value, max_value) ==
    FDiv(2 * p.deviation * (x - min_value), max_value - min_value) + p.center - p.deviation

\* the indices the loops of the Normalize-In-Rows branch address:
\* row_i * cols + col_i for row_i < rows and col_i < cols
RowIndices(p) == {row_i * p.cols + col_i : row_i \in 0 .. (p.rows - 1), col_i \in 0 .. (p.cols - 1)}

\* the indices of the row of index: row_index .. row_index + cols - 1
RowOf(p, index) == {(index \div p.cols) * p.cols + col_i : col_i \in 0 .. (p.cols - 1)}

\* the indices the loops of the Normalize-In-Channels branch address:
\* channel_i + i for channel_i < depth and i = 0, depth, 2 * depth, ... < length
ChannelIndices(p) ==
    {channel_i + i : channel_i \in 0 .. (p.depth - 1),
                     i \in {k \in 0 .. (p.length - 1) : k % p.depth = 0}}

\* the indices of the channel of index
ChannelOf(p, index) == {k \in 0 .. (p.length - 1) : k % p.depth = index % p.depth}

\* the stores petal_forward makes to petal->output, by index, for each petal
\* type (Dense-1D without weights sums its input)
ForwardStores(p, input) ==
    LET all == 0 .. (p.length - 1)
    IN  IF p.petal_type = PETAL_TYPE_DIRECT THEN [i \in all |-> input[i]]
        ELSE IF p.petal_type = PETAL_TYPE_NORMALIZE_ALL
        THEN LET min_value == MinValue(input, all)
                 max_value == MaxValue(input, all)
             IN  [i \in all |-> Normalized(p, input[i], min_value, max_value)]
        ELSE IF p.petal_type = PETAL_TYPE_NORMALIZE_IN_ROWS
        THEN [index \in RowIndices(p) |->
                 Normalized(p, input[index], MinValue(input, RowOf(p, index)),
                            MaxValue(input, RowOf(p, index)))]
        ELSE IF p.petal_type = PETAL_TYPE_NORMALIZE_IN_CHANNELS
        THEN [index \in ChannelIndices(p) |->
                 Normalized(p, input[index], MinValue(input, ChannelOf(p, index)),
                            MaxValue(input, ChannelOf(p, index)))]
        ELSE [output_i \in all |-> Cardinality({i \in all : input[i] # 0})]

\* petal_forward(petal, input, training) with dropout 0 and no activation
LayerForward(p, input) ==
    LET stores == ForwardStores(p, input)
    IN  [p EXCEPT !.output = [i \in DOMAIN @ |-> IF i \in DOMAIN stores THEN stores[i] ELSE @[i]]]

layer_forward(input) ==
    /\ nf_petal' = LayerForward(nf_petal, input)
    /\ nf_last' = [op |-> "petal_forward", written |-> DOMAIN ForwardStores(nf_petal, input)]

\* ------------------------------------------------------------------ SpecLayer
InitLayerWith(p) ==
    /\ nf_petal = p
    /\ nf_last = [op |-> "petal_init", written |-> {}]

ParkLayer == InitLayerWith(LayerInit(PETAL_TYPE_DIRECT, 1, 1, 1))

InitLayer ==
    \E petal_type \in 0 .. PETAL_TYPE_DENSE_1D, rows \in 1 .. MaxDim, cols \in 1 .. MaxDim,
       depth \in 1 .. MaxDim :
        InitLayerWith(LayerInit(petal_type, rows, cols, depth))

NextLayer ==
    \E input \in [0 .. (nf_petal.length - 1) -> {0, 1}] :
        layer_forward(input) /\ UNCHANGED othersOfLayer

\* ------------------------------------------------------------------ softmax backward
\* petal_init of a Dense-1D petal with a softmax activation and an output
\* shape of the given length: output is calloc'ed at length * length
SoftmaxPetalInit(length) ==
    [length |-> length, output |-> Calloc(length * length),
     activation |-> CheckedActivation(ACTIVATION_SOFTMAX), error_code |-> ERROR_NONE]

\* mutant of SoftmaxDot: the branch of the other activations,
\* output[jacobian_col] *= error_right[jacobian_col]
ElementwiseDot(output, error_right, length) ==
    [output |-> [i \in DOMAIN output |->
                    IF i < length THEN MulFixed(output[i], error_right[i]) ELSE output[i]],
     read_after_write |-> 0]

\* the two loops of the softmax branch of petal_backward, store by store, on
\* the buffer itself: written holds the indices stored to so far
RECURSIVE SoftmaxDotFrom(_, _, _, _, _, _, _)
SoftmaxDotFrom(output, error_right, length, jacobian_col, jacobian_row, written, read_after_write) ==
    IF jacobian_col >= length THEN [output |-> output, read_after_write |-> read_after_write]
    ELSE IF jacobian_row >= length
    THEN SoftmaxDotFrom(output, error_right, length, jacobian_col + 1, 0, written, read_after_write)
    ELSE LET row_index == jacobian_row * length
             term == MulFixed(output[row_index + jacobian_col], error_right[jacobian_row])
         IN  SoftmaxDotFrom(
                 [output EXCEPT ![jacobian_col] = IF jacobian_row = 0 THEN term ELSE @ + term],
                 error_right, length, jacobian_col, jacobian_row + 1,
                 written \cup {jacobian_col},
                 read_after_write + (IF row_index + jacobian_col \in written THEN 1 ELSE 0))

\* for (jacobian_col ...) for (jacobian_row ...) of the softmax branch
SoftmaxDot(output, error_right, length) ==
    SoftmaxDotFrom(output, error_right, length, 0, 0, {}, 0)

\* petal_forward of the petal: the dot products leave z in output[0 .. length),
\* activation_forward turns them into the softmax of z.  One pass of a sample
\* is followed: petal_forward, then petal_backward, which starts from a buffer
\* activation_backward rewrites whole
softmax_petal_forward(z) ==
    LET r == ActivationForwardValues(sx_petal.activation, z)
    IN  /\ sx_last.op = "petal_init"
        /\ sx_petal' = [sx_petal EXCEPT
                           !.output = [i \in DOMAIN @ |-> IF i < sx_petal.length THEN r.layer[i]
                                                          ELSE @[i]],
                           !.activation._derivatives_temp = r.temp]
        /\ sx_last' = [sx_last EXCEPT !.op = "petal_forward"]

\* petal_backward of the petal: activation_backward, then the dot of
\* error_right with the Jacobian
softmax_petal_backward(error_right) ==
    /\ sx_last.op # "petal_backward"
    /\ IF sx_petal.activation._derivatives_temp = NullBuf
       THEN /\ sx_petal' = [sx_petal EXCEPT !.error_code = ERROR_ACTIVATION_NO_TEMP]
            /\ sx_last' = [sx_last EXCEPT !.op = "petal_backward"]
       ELSE LET jacobian == [i \in DOMAIN sx_petal.output |->
                                ActivationBackwardValues(sx_petal.activation, sx_petal.output,
                                                         sx_petal.length)[i]]
                dot == SoftmaxDot(jacobian, error_right, sx_petal.length)
            IN  /\ sx_petal' = [sx_petal EXCEPT
                                   !.output = dot.output,
                                   !.activation._derivatives_temp =
                                       BackwardTemp(sx_petal.activation, sx_petal.output,
                                                    sx_petal.length)]
                /\ sx_last' = [op |-> "petal_backward", jacobian |-> jacobian,
                               error_right |-> error_right,
                               read_after_write |-> dot.read_after_write]

\* ------------------------------------------------------------------ SpecSoftmax
InitSoftmaxWith(p) ==
    /\ sx_petal = p
    /\ sx_last = [op |-> "petal_init", jacobian |-> p.output,
                  error_right |-> [i \in 0 .. (p.length - 1) |-> 0],
                  read_after_write |-> 0]

ParkSoftmax == InitSoftmaxWith(SoftmaxPetalInit(1))

InitSoftmax == \E length \in 1 .. MaxSoftmax : InitSoftmaxWith(SoftmaxPetalInit(length))

NextSoftmax ==
    \/ \E z \in [0 .. (sx_petal.length - 1) -> TestGrid] :
           softmax_petal_forward(z) /\ UNCHANGED othersOfSoftmax
    \/ \E error_right \in [0 .. (sx_petal.length - 1) -> {-Fixed, 0, Fixed \div 2}] :
           softmax_petal_backward(error_right) /\ UNCHANGED othersOfSoftmax

\* ================================================================== specifications
ParkMask == InitMaskWith(BitArrayInit(1, TRUE))

InitSpecMask == InitMask /\ ParkWeights /\ ParkPetal /\ ParkShuffle /\ ParkTrain /\ ParkBackward /\ ParkRandom /\ ParkCheck /\ ParkSession /\ ParkInit /\ ParkLayer /\ ParkSoftmax
SpecMask == InitSpecMask /\ [][NextMask]_vars

\* rk_random_() % length takes every value of 0 .. length - 1 again and again:
\* a loop that goes on draws an index that is not set yet
NewIndexDrawn ==
    \E index \in 0 .. (ba_length - 1) :
        ~GetBit(ba_data, ba_length, index) /\ dropout_draw(index) /\ UNCHANGED othersOfMask
SpecMaskFair ==
    /\ SpecMask
    /\ WF_vars(NewIndexDrawn)
    /\ WF_vars(dropout_generate_indices_end /\ UNCHANGED othersOfMask)

InitSpecWeights == InitWeights /\ ParkMask /\ ParkPetal /\ ParkShuffle /\ ParkTrain /\ ParkBackward /\ ParkRandom /\ ParkCheck /\ ParkSession /\ ParkInit /\ ParkLayer /\ ParkSoftmax
SpecWeights == InitSpecWeights /\ [][NextWeights]_vars

InitSpecPetal == InitPetal /\ ParkWeights /\ ParkShuffle /\ ParkTrain /\ ParkBackward /\ ParkRandom /\ ParkCheck /\ ParkSession /\ ParkInit /\ ParkLayer /\ ParkSoftmax
SpecPetal == InitSpecPetal /\ [][NextPetal]_vars

InitSpecShuffle == InitShuffle /\ ParkMask /\ ParkWeights /\ ParkPetal /\ ParkTrain /\ ParkBackward /\ ParkRandom /\ ParkCheck /\ ParkSession /\ ParkInit /\ ParkLayer /\ ParkSoftmax
SpecShuffle == InitSpecShuffle /\ [][NextShuffle]_vars

InitSpecTrain == InitTrain /\ ParkMask /\ ParkWeights /\ ParkPetal /\ ParkShuffle /\ ParkBackward /\ ParkRandom /\ ParkCheck /\ ParkSession /\ ParkInit /\ ParkLayer /\ ParkSoftmax
SpecTrain == InitSpecTrain /\ [][NextTrain]_vars

InitSpecBackward == InitBackward /\ ParkMask /\ ParkWeights /\ ParkPetal /\ ParkShuffle /\ ParkTrain /\ ParkRandom /\ ParkCheck /\ ParkSession /\ ParkInit /\ ParkLayer /\ ParkSoftmax
SpecBackward == InitSpecBackward /\ [][NextBackward]_vars

InitSpecRandom == InitRandom /\ ParkMask /\ ParkWeights /\ ParkPetal /\ ParkShuffle /\ ParkTrain /\ ParkBackward /\ ParkCheck /\ ParkSession /\ ParkInit /\ ParkLayer /\ ParkSoftmax
SpecRandom == InitSpecRandom /\ [][NextRandom]_vars

InitSpecCheck == InitCheck /\ ParkMask /\ ParkWeights /\ ParkPetal /\ ParkShuffle /\ ParkTrain /\ ParkBackward /\ ParkRandom /\ ParkSession /\ ParkInit /\ ParkLayer /\ ParkSoftmax
SpecCheck == InitSpecCheck /\ [][NextCheck]_vars

InitSpecSession == InitSession /\ ParkMask /\ ParkWeights /\ ParkPetal /\ ParkShuffle /\ ParkTrain /\ ParkBackward /\ ParkRandom /\ ParkCheck /\ ParkInit /\ ParkLayer /\ ParkSoftmax
SpecSession == InitSpecSession /\ [][NextSession]_vars
InitSpecInit == InitInit /\ ParkMask /\ ParkWeights /\ ParkPetal /\ ParkShuffle /\ ParkTrain /\ ParkBackward /\ ParkRandom /\ ParkCheck /\ ParkSession /\ ParkLayer /\ ParkSoftmax
SpecInit == InitSpecInit /\ [][NextInit]_vars
InitSpecLayer == InitLayer /\ ParkMask /\ ParkWeights /\ ParkPetal /\ ParkShuffle /\ ParkTrain /\ ParkBackward /\ ParkRandom /\ ParkCheck /\ ParkSession /\ ParkInit /\ ParkSoftmax
SpecLayer == InitSpecLayer /\ [][NextLayer]_vars
InitSpecSoftmax == InitSoftmax /\ ParkMask /\ ParkWeights /\ ParkPetal /\ ParkShuffle /\ ParkTrain /\ ParkBackward /\ ParkRandom /\ ParkCheck /\ ParkSession /\ ParkInit /\ ParkLayer
SpecSoftmax == InitSpecSoftmax /\ [][NextSoftmax]_vars

\* ================================================================== properties

\* ------------------------------------------------------------------ SpecMask
\* every bit position of the backing array, padding included
AllBits == 0 .. (ba_words * BIT_ARRAY_BITS - 1)

\* C4: after dropout_generate_indices on a cleared mask of length L with ratio
\* r in [0,1], the number of indices i < L whose bit is set is exactly
\* floor(r * L).
C4_DropoutExactCount ==
    ba_op.name = "dropout_generate_indices"
        => CountSet(ba_data, ba_length) = FloorMul(ba_length, dr_ratio)

\* C9: set_bit / clear_bit / get_bit with index >= length leave every word
\* unchanged and set ERROR_BITMAP_ACCESS_OUT_OF_BOUNDS (get returns false); with
\* index < length they set no error, touch only the word index / word_bits,
\* which lies inside the backing array, and change (or read) only that bit.
C9_BitAccessBoundsChecked ==
    [][ba_op'.name \in {"set_bit", "clear_bit", "get_bit"} =>
          LET i == ba_op'.index
              name == ba_op'.name
          IN  IF i >= ba_length
              THEN /\ ba_data' = ba_data
                   /\ ba_error' = ERROR_BITMAP_ACCESS_OUT_OF_BOUNDS
                   /\ ba_overrun' = ba_overrun
                   /\ (name = "get_bit" => ba_ret' = FALSE)
              ELSE /\ ba_error' = ba_error
                   /\ (i \div BIT_ARRAY_BITS) < ba_words
                   /\ ba_overrun' = ba_overrun
                   /\ \A j \in AllBits \ {i} : BitOf(ba_data', j) = BitOf(ba_data, j)
                   /\ (name = "set_bit" => BitOf(ba_data', i))
                   /\ (name = "clear_bit" => ~BitOf(ba_data', i))
                   /\ (name = "get_bit" => ba_data' = ba_data /\ ba_ret' = BitOf(ba_data, i))
      ]_vars

\* C9 witness: an out-of-range set_bit on a two-word mask that holds set bits
C9_Witness ==
    /\ ba_op.name = "set_bit"
    /\ ba_op.index >= ba_length
    /\ ba_error = ERROR_BITMAP_ACCESS_OUT_OF_BOUNDS
    /\ ba_words > 1
    /\ BitOf(ba_data, ba_length - 1)

C10_ClearInsideBackingArray ==
    ba_op.name = "clear" => (AllZero(ba_data) /\ ba_overrun = 0)

\* ------------------------------------------------------------------ SpecPetal
\* C3: a petal_forward with training = false that ends without error leaves
\* the dropout mask as it was, and its output is what the petal computes from
\* the input and the weights with every output index activated and no
\* 1 / (1 - r + EPSILON) scaling, whatever bits earlier training passes left in
\* the mask.
C3_InferenceUnaffectedByDropout ==
    [][(/\ pe_last'.op = "petal_forward"
        /\ ~pe_last'.training
        /\ pe'.error_code = ERROR_NONE)
          => /\ ba_data' = ba_data
             /\ pe'.output = IF pe.activation.present
                             THEN ActivationForward(pe.activation,
                                                    TypeLoop(pe, pe_last'.input, {}), {})
                             ELSE TypeLoop(pe, pe_last'.input, {})
      ]_vars

\* ------------------------------------------------------------------ SpecShuffle
\* C7: after the per-epoch shuffle the training set is a joint permutation of
\* whole samples: some permutation of the sample indices gives, for every row,
\* the sample whose bytes fill the whole input vector, the whole dense target
\* and the sparse labels of that row.
C7_ShuffleJointPermutation ==
    sh_pc = "returned_true" =>
        \E perm \in [0 .. (sh.array_length - 1) -> 0 .. (sh.array_length - 1)] :
            /\ \A r1, r2 \in DOMAIN perm : perm[r1] = perm[r2] => r1 = r2
            /\ \A row \in DOMAIN perm :
                  /\ \A b \in DOMAIN sh.array_1[row] : sh.array_1[row][b] = perm[row]
                  /\ sh.array_2 # NullBuf =>
                        \A b \in DOMAIN sh.array_2[row] : sh.array_2[row][b] = perm[row]
                  /\ sh.sparse # NullBuf => sh.sparse[row] = perm[row]

\* ------------------------------------------------------------------ SpecTrain
\* the calls of one sample's backward chain from petal i down to petal 0
RECURSIVE BackwardEvents(_, _)
BackwardEvents(sample, i) ==
    IF i < 0 THEN <<>>
    ELSE <<Ev("petal_backward", sample, i)>> \o BackwardEvents(sample, i - 1)

\* the calls of the training stage for the samples from `sample` up to `to`
RECURSIVE TrainingEvents(_, _, _)
TrainingEvents(sample, to, petals_length) ==
    IF sample >= to THEN <<>>
    ELSE <<Ev("flower_forward", sample, 1), Ev("loss_forward", sample, 0),
           Ev("loss_backward", sample, 0)>>
         \o BackwardEvents(sample, petals_length - 1)
         \o TrainingEvents(sample + 1, to, petals_length)

\* weights then bias weights, for the petals from i on in layer order
RECURSIVE UpdateEvents(_, _)
UpdateEvents(i, petals_length) ==
    IF i >= petals_length THEN <<>>
    ELSE <<Ev("weights_update", i, 0), Ev("weights_update", i, 1)>>
         \o UpdateEvents(i + 1, petals_length)

RECURSIVE ValidationEvents(_, _)
ValidationEvents(v, validation_length) ==
    IF v >= validation_length THEN <<>>
    ELSE <<Ev("validation", v, 0)>> \o ValidationEvents(v + 1, validation_length)

\* the last call of the batch
LastCall == IF tr_trace = <<>> THEN Ev("none", 0, 0) ELSE tr_trace[Len(tr_trace)]

\* the calls of a finished batch in the order C1 states, for the batch whose
\* metrics_calculate_batch call ends the trace
ExpectedBatch ==
    TrainingEvents(tr_loop.sample_index_from, tr_loop.sample_index_to, tr_cfg.petals_length)
    \o UpdateEvents(0, tr_cfg.petals_length)
    \o ValidationEvents(0, tr_cfg.validation_length)
    \o <<Ev("metrics_calculate_batch", LastCall[2], 0)>>

IsPrefix(a, b) == Len(a) <= Len(b) /\ \A k \in 1 .. Len(a) : a[k] = b[k]

BatchDone == LastCall[1] = "metrics_calculate_batch"

\* C1: the calls of every non-empty batch are made in this order: for each
\* sample of the batch forward, loss forward, loss backward and the petals'
\* backward; then one weights_update for the weights and one for the bias
\* weights of each petal in layer order; then the validation pass when
\* validation_length > 0; then one metrics_calculate_batch.  What a batch has
\* called so far is always a prefix of that sequence (so no weights_update
\* falls between two samples), and a batch that reached metrics_calculate_batch
\* has made exactly that sequence.
C1_BatchStagesInOrder ==
    /\ BatchDone => tr_trace = ExpectedBatch
    /\ ~BatchDone =>
          IsPrefix(tr_trace,
                   TrainingEvents(tr_loop.sample_index_from, tr_loop.sample_index_to,
                                  tr_cfg.petals_length)
                   \o UpdateEvents(0, tr_cfg.petals_length)
                   \o ValidationEvents(0, tr_cfg.validation_length))

\* C1 witness: a finished batch of two samples on a three-petal flower with a
\* validation pass
C1_Witness ==
    /\ BatchDone
    /\ tr_loop.sample_index_to - tr_loop.sample_index_from >= 2
    /\ tr_cfg.petals_length = 3
    /\ tr_cfg.validation_length > 0
    /\ tr_trace = ExpectedBatch

\* C5: when petal_forward leaves an error code on petal i during
\* flower_forward, the petals evaluated are exactly 0 .. i, the flower's
\* error_code is that code, flower_forward returns NULL and flower_train has
\* returned with that forward as its last call.
C5_ForwardErrorStopsTraining ==
    tr_flower.predicted = "NULL" =>
        LET n == Len(tr_flower.evaluated)
        IN  /\ n >= 1
            /\ \A k \in 1 .. n : tr_flower.evaluated[k] = k - 1
            /\ tr_flower.petals[n - 1].error_code # ERROR_NONE
            /\ \A j \in 0 .. (n - 2) : tr_flower.petals[j].error_code = ERROR_NONE
            /\ \A j \in n .. (tr_flower.petals_length - 1) : ~tr_flower.petals[j].temp
            /\ tr_flower.error_code = tr_flower.petals[n - 1].error_code
            /\ tr_pc = "returned"
            /\ LastCall[1] \in {"flower_forward", "validation"}

\* C5 witness: the second of three petals failed in the first forward
C5_Witness ==
    /\ tr_flower.predicted = "NULL"
    /\ tr_flower.petals_length = 3
    /\ tr_flower.evaluated = <<0, 1>>
    /\ tr_flower.error_code = ERROR_MALLOC
    /\ tr_pc = "returned"

\* C6: batches_per_epoch is the ceiling of train_length / batch_size and at
\* least 1, the batch in progress covers b * batch_size up to
\* min((b + 1) * batch_size, train_length), and when an epoch ends every sample
\* index below train_length has been trained on exactly once (batch_size >= 1).
C6_EverySampleOncePerEpoch ==
    tr_cfg.batch_size >= 1 =>
        /\ tr_pc \notin {"start", "returned", "crash"} =>
              /\ tr_loop.batches_per_epoch >= 1
              /\ tr_loop.batches_per_epoch =
                    (tr_cfg.train_length + tr_cfg.batch_size - 1) \div tr_cfg.batch_size
        /\ tr_pc \in {"forward", "loss_forward", "loss_backward", "petal_backward"} =>
              /\ tr_loop.sample_index_from = tr_loop.batch_index * tr_cfg.batch_size
              /\ tr_loop.sample_index_to =
                    Min((tr_loop.batch_index + 1) * tr_cfg.batch_size, tr_cfg.train_length)
        /\ (tr_pc = "epoch" /\ tr_loop.epoch_index >= 1) =>
              \A s \in 0 .. (tr_cfg.train_length - 1) : tr_trained[s] = 1

\* C8: every petal_backward call of the backward chain follows the call for
\* the petal after it (the last petal's follows loss_backward), gets the loss
\* derivatives (last petal) or petal i + 1's error_on_input as incoming error,
\* gets the training input (petal 0) or petal i - 1's output as left output,
\* and reads no index of flower->petals outside 0 .. petals_length - 1.
C8_BackwardChain ==
    (tr_call.op = "petal_backward" /\ LastCall[1] = "petal_backward") =>
        LET i == tr_call.petal
            n == Len(tr_trace)
        IN  /\ LastCall[3] = i
            /\ tr_trace[n - 1] = IF i = tr_cfg.petals_length - 1
                                 THEN Ev("loss_backward", LastCall[2], 0)
                                 ELSE Ev("petal_backward", LastCall[2], i + 1)
            /\ tr_call.error_right = IF i = tr_cfg.petals_length - 1 THEN <<"loss", 0>>
                                     ELSE <<"error_on_input", i + 1>>
            /\ tr_call.output_left = IF i = 0 THEN <<"input", 0>> ELSE <<"output", i - 1>>
            /\ tr_call.touched \subseteq 0 .. (tr_cfg.petals_length - 1)

\* C11: a memory allocation that fails inside a core operation stops the
\* operation and shows as ERROR_MALLOC on the owning aggregate or as the
\* returned code; for the epoch shuffle inside flower_train: when a malloc of
\* shuffle_2d failed, flower_train has returned with ERROR_MALLOC on the flower.
C11_AllocationFailureSurfaces ==
    ~tr_loop.shuffle_2d => (tr_flower.error_code = ERROR_MALLOC /\ tr_pc = "returned")

\* ------------------------------------------------------------------ SpecBackward
\* C12: activation_backward on an activation whose _derivatives_temp no forward
\* pass allocated returns ERROR_ACTIVATION_NO_TEMP and leaves the layer as it
\* was; petal_backward then sets that code on the petal and changes nothing
\* else of it: no gradient, no error_on_input element, no output.
\* loss_backward before any loss_forward returns ERROR_LOSS_NO_TEMP and leaves
\* the loss as it was.
C12_BackwardWithoutTemp ==
    [][/\ (/\ bk_last'.op = "petal_backward"
           /\ bk_petal.petal_type = PETAL_TYPE_DENSE_1D
           /\ bk_petal.activation.present
           /\ bk_petal.activation._derivatives_temp = NullBuf)
          => /\ ActivationBackward(bk_petal.activation, bk_petal.output)
                    = <<bk_petal.output, ERROR_ACTIVATION_NO_TEMP>>
             /\ bk_petal' = [bk_petal EXCEPT !.error_code = ERROR_ACTIVATION_NO_TEMP]
       /\ (/\ bk_last'.op = "loss_backward"
           /\ bk_loss._derivatives_temp_1 = NullBuf
           /\ bk_loss._derivatives_temp_2 = NullBuf)
          => /\ bk_last'.ret = ERROR_LOSS_NO_TEMP
             /\ bk_loss' = bk_loss
      ]_vars

\* both cases of C12 in one run: a loss_backward and then a petal_backward,
\* each without its forward pass, on a trainable non-first Dense-1D petal
C12_Witness ==
    /\ bk_last.op = "petal_backward"
    /\ bk_last.ret = ERROR_LOSS_NO_TEMP
    /\ bk_petal.petal_type = PETAL_TYPE_DENSE_1D
    /\ bk_petal.activation.present
    /\ bk_petal.error_code = ERROR_ACTIVATION_NO_TEMP
    /\ bk_petal.weights.trainable
    /\ ~bk_petal.first

\* ------------------------------------------------------------------ SpecTrain (continued)
\* C13: flower_train called with batch_size = 0 (and arguments that pass the
\* checks made before the batch count) returns with ERROR_WRONG_BATCH_SIZE on
\* the flower, having made no forward pass, backward pass or weights update.
C13_ZeroBatchSizeRejected ==
    (/\ tr_cfg.batch_size = 0
     /\ tr_pc # "start"
     /\ tr_flower.error_code \notin {ERROR_LOSS_WRONG_TYPE, ERROR_MALLOC})
        => /\ tr_pc = "returned"
           /\ tr_flower.error_code = ERROR_WRONG_BATCH_SIZE
           /\ tr_trace = <<>>

\* ------------------------------------------------------------------ SpecBackward (continued)
\* a weights record of the petal that is there and not trainable
Frozen(w) == w # NoWeights /\ ~w.trainable

\* no gradient accumulator, no optimizer buffer, no learning step taken
Untouched(w) ==
    /\ w.gradients = NullBuf
    /\ w.moments = NullBuf
    /\ w.velocities_or_cache = NullBuf
    /\ w._learning_step = 0

\* C14: a weights record with trainable = false never gets a gradient
\* accumulator, and no petal_forward, petal_backward or weights_update call
\* after petal_init changes its weights, its optimizer buffers or its learning
\* step.
C14_FrozenWeightsUnchanged ==
    /\ [](/\ Frozen(bk_petal.weights) => Untouched(bk_petal.weights)
          /\ Frozen(bk_petal.bias_weights) => Untouched(bk_petal.bias_weights))
    /\ [][/\ Frozen(bk_petal.weights) => bk_petal'.weights = bk_petal.weights
          /\ Frozen(bk_petal.bias_weights) => bk_petal'.bias_weights = bk_petal.bias_weights
         ]_vars

\* a Dense-1D petal with frozen weights and bias weights after a forward pass
\* and a petal_backward that ran to its end
C14_Witness ==
    /\ bk_last.op = "petal_backward"
    /\ bk_petal.petal_type = PETAL_TYPE_DENSE_1D
    /\ Frozen(bk_petal.weights)
    /\ Frozen(bk_petal.bias_weights)
    /\ bk_petal.activation._derivatives_temp # NullBuf
    /\ bk_petal.error_code = ERROR_NONE
    /\ \E i \in DOMAIN bk_petal.weights.weights : bk_petal.weights.weights[i] # 0

\* the sum of f over the indices in S
RECURSIVE SumOver(_, _)
SumOver(f, S) ==
    IF S = {} THEN 0
    ELSE LET i == CHOOSE i \in S : TRUE
         IN  f[i] + SumOver(f, S \ {i})

\* sum_i W[j * in_len + i] * in[i] + b[j]
DenseOutput(p, input, j) ==
    SumOver([i \in 0 .. (p.input_length - 1) |->
                 p.weights.weights[j * p.input_length + i] * input[i]],
            0 .. (p.input_length - 1))
    + (IF p.bias_weights = NoWeights THEN 0 ELSE p.bias_weights.weights[j])

\* C15: a forward pass of a Dense-1D petal without activation (and without
\* dropout, as in inference) writes out[j] = sum_i W[j * in_len + i] * in[i]
\* + b[j] for every j < out_len; so all-zero W and bias give all zeros, and the
\* identity matrix with zero bias gives the input.
C15_DenseForwardIsAffine ==
    [][(/\ bk_last'.op = "petal_forward"
        /\ bk_petal.petal_type = PETAL_TYPE_DENSE_1D
        /\ ~bk_petal.activation.present)
          => LET in_len == bk_petal.input_length
                 out_len == bk_petal.output_length
                 W == bk_petal.weights.weights
                 zero_bias == \A j \in DOMAIN bk_petal.bias_weights.weights :
                                  bk_petal.bias_weights.weights[j] = 0
             IN  /\ DOMAIN bk_petal'.output = 0 .. (out_len - 1)
                 /\ \A j \in 0 .. (out_len - 1) :
                        bk_petal'.output[j] = DenseOutput(bk_petal, bk_last'.input, j)
                 /\ (zero_bias /\ \A k \in DOMAIN W : W[k] = 0)
                        => \A j \in 0 .. (out_len - 1) : bk_petal'.output[j] = 0
                 /\ (/\ zero_bias
                     /\ in_len = out_len
                     /\ \A j, i \in 0 .. (in_len - 1) :
                            W[j * in_len + i] = IF i = j THEN 1 ELSE 0)
                        => bk_petal'.output = bk_last'.input
                 /\ bk_petal'.error_code = bk_petal.error_code
      ]_vars

\* a forward pass through a 2 x 2 identity matrix with bias weights of zero
C15_Witness ==
    /\ bk_last.op = "petal_forward"
    /\ bk_petal.petal_type = PETAL_TYPE_DENSE_1D
    /\ ~bk_petal.activation.present
    /\ bk_petal.input_length = 2
    /\ bk_petal.output_length = 2
    /\ bk_petal.weights.weights = [k \in 0 .. 3 |-> IF k \in {0, 3} THEN 1 ELSE 0]
    /\ bk_petal.bias_weights # NoWeights
    /\ bk_petal.output = bk_last.input
    /\ bk_petal.output[0] # bk_petal.output[1]

\* C20: a petal that is not the first owns an error_on_input array of
\* input_shape->length elements, the first petal owns none, and a
\* petal_backward call addresses no element outside that array, whatever the
\* petal type and the input and output lengths.
C20_ErrorOnInputInsideBuffer ==
    bk_last.op \in {"petal_backward", "crash"} =>
        /\ bk_petal.first => bk_petal.error_on_input = NullBuf
        /\ ~bk_petal.first =>
               DOMAIN bk_petal.error_on_input = 0 .. (bk_petal.input_length - 1)
        /\ bk_last.past = 0

FirstDraws ==
    <<Word(35967, 2732), Word(38852, 43567), Word(46870, 42613), Word(55329, 52416),
      Word(39502, 45891)>>

\* the five floats that follow, 0.85794562, 0.84725171, 0.62356371, 0.38438171,
\* 0.29753458, in units of 10^-8
NextFloats == <<85794562, 84725171, 62356371, 38438171, 29753458>>

\* the first places decimal digits of r / 2^k appended to acc, and what is left:
\* <<digits as a number, remainder>>, for r < 2^k and k <= 27
RECURSIVE Decimal(_, _, _, _)
Decimal(acc, r, k, places) ==
    IF places = 0 THEN <<acc, r>>
    ELSE Decimal(acc * 10 + ((r * 10) \div Pow2(k)), (r * 10) % Pow2(k), k, places - 1)

\* the float value[1] / 2^value[2] printed with eight decimals, in units of
\* 10^-8: the nearest, ties to even.  Floats from 1/4 up are more than 10^-8
\* apart, so no two of them print alike
Printed(value) ==
    LET d == Decimal(0, value[1], value[2], 8)
        up == 2 * d[2] > Pow2(value[2]) \/ (2 * d[2] = Pow2(value[2]) /\ d[1] % 2 = 1)
    IN  IF up THEN d[1] + 1 ELSE d[1]

\* C17: after rk_seed with seed 0, on the process-wide state or on one the
\* caller owns, the first five words rk_random returns are 2357136044,
\* 2546248239, 3071714933, 3626093760, 2588848963, and the rk_float calls that
\* consume the next ten words return 0.85794562, 0.84725171, 0.62356371,
\* 0.38438171, 0.29753458.
C17_SeedZeroDraws ==
    rk_seeded = Word(0, 0) =>
        /\ (rk_last.op = "rk_random" /\ rk_state.regenerated /\ rk_state.pos \in 1 .. 5)
               => rk_last.value = FirstDraws[rk_state.pos]
        /\ (rk_last.op = "rk_float" /\ rk_state.pos \in {7, 9, 11, 13, 15})
               => Printed(rk_last.value) = NextFloats[(rk_state.pos - 5) \div 2]

\* rk_seed_(0), then words were drawn up to the fifteenth, the last two by
\* rk_float_, which returned the fifth float
C17_Witness ==
    /\ rk_owner = "global"
    /\ rk_seeded = Word(0, 0)
    /\ rk_last.op = "rk_float"
    /\ rk_state.pos = 15
    /\ Printed(rk_last.value) = NextFloats[5]

\* C18: the numerator a * 2^26 + b of the double rk_double returns, with
\* a = d1 >> 5 and b = d2 >> 6 for the two words d1, d2 it draws, is above 0
\* and below 2^53: the double is strictly inside (0, 1).
C18_DoubleInsideUnitInterval ==
    rk_last.op = "rk_double" =>
        /\ rk_last.value # <<0, 0>>
        /\ rk_last.value[1] < Pow2(27) /\ rk_last.value[2] < Pow2(26)

\* ------------------------------------------------------------------ SpecCheck
\* check_match(derivative, derivative_approx, array_length, 0.01f)
check_match(derivative, derivative_approx, array_length) ==
    \A i \in 0 .. (array_length - 1) :
        ~(Abs(derivative[i] - derivative_approx[i]) > Fixed \div 100)

\* softmax_check of check_activation
softmax_check ==
    [k \in 0 .. 24 |->
        <<115204, -3693, -10039, -27290, -74181,
          -3693, 306810, -27290, -74181, -201646,
          -10039, -27290, 787104, -201646, -548129,
          -27290, -74181, -201646, 1793087, -1489970,
          -74181, -201646, -548129, -1489970, 2313927>>[k + 1]]

\* activation_forward alone on test_data, then activation_backward
ForwardThenBackward ==
    LET length == Cardinality(DOMAIN ca_data)
        forward == ActivationForwardValues(CheckedActivation(ca_activation.type), ca_data)
    IN  ActivationBackwardValues(
            [CheckedActivation(ca_activation.type) EXCEPT !._derivatives_temp = forward.temp],
            forward.layer, length)

\* f[row] * ((row = col) - f[col]) for f the softmax of test_data
ReferenceJacobian ==
    LET length == Cardinality(DOMAIN ca_data)
        f == ActivationForwardValues(CheckedActivation(ACTIVATION_SOFTMAX), ca_data).layer
    IN  [k \in 0 .. (length * length - 1) |->
            MulFixed(f[k \div length],
                     (IF k \div length = k % length THEN Fixed ELSE 0) - f[k % length])]

Accumulators ==
    {fs_flower.petals[i].weights.gradients : i \in {j \in 0 .. 1 : fs_flower.petals[j].weights.trainable}}
    \cup {fs_flower.petals[i].bias_weights.gradients :
             i \in {j \in 0 .. 1 : fs_flower.petals[j].bias_weights.trainable}}

\* C21: when flower_train is about to apply the optimizer at the end of a
\* batch, every element of every trainable gradient accumulator is the sum of
\* the gradients of that batch's samples, and when the training pass of a
\* batch begins every accumulator is all zero, in every epoch of every call
C21_AccumulatorsHoldTheBatch ==
    /\ fs_pc = "update" =>
           \A gradients \in Accumulators : \A i \in DOMAIN gradients :
               gradients[i] = BatchGradient(fs_loop.sample_index_from, fs_loop.sample_index_to)
    /\ (fs_pc = "sample" /\ fs_loop.sample_index = fs_loop.sample_index_from) =>
           \A gradients \in Accumulators : \A i \in DOMAIN gradients : gradients[i] = 0

\* ------------------------------------------------------------------ SpecWeights: Adam
\* C22: under Adam, _learning_step is the index of the weights update since the
\* start of training: one weights_update call advances it by exactly 1 whatever
\* length_total is, so it never exceeds the number of weights_update calls made
\* on the record
C22_StepCountsUpdates ==
    (wt.trainable /\ wt_last.opt.type = OPTIMIZER_ADAM) => wt._learning_step <= wt_updates

\* ------------------------------------------------------------------ SpecInit
UniformVariants == {WEIGHTS_INIT_XAVIER_GLOROT_UNIFORM, WEIGHTS_INIT_KAIMING_HE_UNIFORM}
GaussianVariants == {WEIGHTS_INIT_XAVIER_GLOROT_GAUSSIAN, WEIGHTS_INIT_KAIMING_HE_GAUSSIAN}

\* limit = sqrt(c / length_total)
LimitOf(c, length_total) == sqrtf(DivFixed(c * Fixed, length_total * Fixed))

\* C23: after a weights_init under a Xavier-Glorot or Kaiming-He initializer,
\* every element is its base draw times sqrt(c / length_total), with c = 6 for
\* the two Uniform variants and c = 2 for the two Gaussian variants
C23_LimitByDistribution ==
    (/\ wi_last.op = "weights_init"
     /\ wi_last.ret = ERROR_NONE
     /\ wi.initializer \in UniformVariants \cup GaussianVariants)
    => \A i \in DOMAIN wi.weights :
           wi.weights[i] = MulFixed(wi_last.base[i],
                                    LimitOf(IF wi.initializer \in UniformVariants THEN 6 ELSE 2,
                                            wi.length_total))

\* the same with c = 6 for the two Xavier-Glorot variants and c = 2 for the two
\* Kaiming-He variants
LimitByFamily ==
    (/\ wi_last.op = "weights_init"
     /\ wi_last.ret = ERROR_NONE
     /\ wi.initializer \in UniformVariants \cup GaussianVariants)
    => \A i \in DOMAIN wi.weights :
           wi.weights[i] = MulFixed(wi_last.base[i],
                                    LimitOf(IF wi.initializer \in {WEIGHTS_INIT_XAVIER_GLOROT_UNIFORM,
                                                                   WEIGHTS_INIT_XAVIER_GLOROT_GAUSSIAN}
                                            THEN 6 ELSE 2,
                                            wi.length_total))

\* ------------------------------------------------------------------ SpecMaskFair
\* bits set in the mask
IndicesSet == {i \in 0 .. (ba_length - 1) : GetBit(ba_data, ba_length, i)}

\* k as the two branches give it: floor(r * L) for r <= 1/2, L - floor(r * L)
\* above
TargetOf(length, r) ==
    IF 2 * r[1] <= r[2] THEN (length * r[1]) \div r[2] ELSE length - ((length * r[1]) \div r[2])

\* the sampling loop is entered with the target of its branch, below L, and
\* counts the distinct indices drawn
LoopCounts ==
    dr_pc = "loop" =>
        /\ dr_target = TargetOf(ba_length, dr_ratio)
        /\ dr_target < ba_length
        /\ dr_counter = Cardinality(IndicesSet)
        /\ dr_counter <= dr_target

\* C26 as stated: the loop is entered only with k <= L / 2, and it ends once k
\* distinct indices have been drawn
C26_TargetAtMostHalf ==
    /\ [](LoopCounts /\ (dr_pc = "loop" => 2 * dr_target <= ba_length))
    /\ (dr_pc = "loop" ~> dr_pc = "idle")

\* C26, amended: the loop is entered only with k <= ceil(L / 2) and k < L
\* (k = L - floor(r * L) exceeds L / 2 when r * L is not whole, as for L = 3 and
\* r = 5/8), and on a cleared mask it ends once k distinct indices have been
\* drawn, under draws that go on producing indices not yet set
C26_TargetAtMostHalfRoundedUp ==
    /\ [](LoopCounts /\ (dr_pc = "loop" => 2 * dr_target <= ba_length + 1))
    /\ (dr_pc = "loop" ~> dr_pc = "idle")

\* a loop that has drawn its k > L / 2 distinct indices
C26_Witness ==
    /\ dr_pc = "loop"
    /\ 2 * dr_target > ba_length
    /\ dr_counter = dr_target
    /\ Cardinality(IndicesSet) = dr_target

\* ------------------------------------------------------------------ SpecSession: frame
\* the weights_s records of every petal: weights, gradients, moments,
\* velocities_or_cache, _learning_step
Parameters ==
    [i \in 0 .. (fs_flower.petals_length - 1) |->
        <<fs_flower.petals[i].weights, fs_flower.petals[i].bias_weights>>]

\* C25: a step of the validation stage of flower_train and a flower_predict
\* call run no backward step and leave every parameter value, gradient
\* accumulator, moment, velocity buffer and learning-step counter as it was
C25_ValidationAndPredictKeepParameters ==
    [][(fs_pc = "validation" \/ fs_last'.op = "flower_predict")
          => (Parameters' = Parameters /\ fs_last'.op # "petal_backward")]_vars

\* a flower_predict call, and a validation sample, on a flower whose
\* parameters an optimizer step has changed
C25_Witness ==
    /\ fs_last.op \in {"flower_predict", "validation"}
    /\ fs_calls > 0
    /\ \E i \in 0 .. 1 : fs_flower.petals[i].weights.velocities_or_cache # NullBuf
    /\ \E i \in 0 .. 1 : \E j \in DOMAIN fs_flower.petals[i].weights.weights :
           fs_flower.petals[i].weights.weights[j] # FlowerInit(TRUE, TRUE).petals[i].weights.weights[j]

\* ------------------------------------------------------------------ SpecSession: arguments
\* C27: every flower_train call validates its own loss_type and trains with
\* it: no call runs with loss_type > LOSS_MAX, and the loss a call computes is
\* of the type that call was given, whatever earlier calls on the flower used
C27_LossTypeOfTheCall ==
    /\ fs_pc # "idle" => fs_args.loss_type <= LOSS_MAX
    /\ fs_last.op \in {"petal_backward", "validation"} => fs_last.loss_type = fs_last.asked

\* the first flower_train call of a flower validates its loss_type and trains
\* with it
FirstCallLossType ==
    fs_calls <= 1 => C27_LossTypeOfTheCall

\* C28: sparse validation labels are converted into an allocated output_temp,
\* whether the training targets are dense or sparse: labels_to_petal_output is
\* never handed a NULL buffer
C28_SparseValidationHasBuffer ==
    /\ ~fs_last.null_output_temp
    /\ (fs_pc = "validation" /\ fs_args.validation_sparse) => fs_loop.output_temp

\* with sparse training labels, sparse validation labels have their buffer
SparseTrainingHasBuffer ==
    (fs_pc = "validation" /\ fs_args.validation_sparse /\ fs_args.train_sparse) => fs_loop.output_temp

\* ------------------------------------------------------------------ SpecBackward: absent activation
\* C30: petal_backward on a Dense-1D petal created with activation = NULL,
\* first or not, completes with error code ERROR_NONE and dereferences nothing
\* that is absent (the calls that stay inside error_on_input are the ones
\* looked at)
C30_DenseWithoutActivationIsTrainable ==
    (/\ bk_petal.petal_type = PETAL_TYPE_DENSE_1D
     /\ ~bk_petal.activation.present
     /\ bk_last.op \in {"petal_backward", "crash"}
     /\ bk_last.past = 0)
    => (bk_last.op = "petal_backward" /\ bk_petal.error_code = ERROR_NONE)

\* with an activation, petal_backward inside error_on_input does not fault
DenseWithActivationCompletes ==
    (/\ bk_petal.petal_type = PETAL_TYPE_DENSE_1D
     /\ bk_petal.activation.present
     /\ bk_last.op \in {"petal_backward", "crash"}
     /\ bk_last.past = 0)
    => bk_last.op = "petal_backward"

\* ------------------------------------------------------------------ SpecLayer
\* C29: a petal_forward call that ends with ERROR_NONE has stored to every
\* index of 0 .. length - 1 of the output buffer, for every petal type and
\* every shape
C29_EveryOutputIndexWritten ==
    (nf_last.op = "petal_forward" /\ nf_petal.error_code = ERROR_NONE)
    => nf_last.written = 0 .. (nf_petal.length - 1)

\* the same for every petal type but Normalize-In-Rows, and for
\* Normalize-In-Rows on shapes of depth 1
WrittenButRowsOfDeepShapes ==
    (nf_petal.petal_type = PETAL_TYPE_NORMALIZE_IN_ROWS => nf_petal.depth = 1)
    => C29_EveryOutputIndexWritten

\* ------------------------------------------------------------------ SpecSoftmax
\* sum over jacobian_row of J[jacobian_row][jacobian_col] * error_right[jacobian_row]
RECURSIVE JacobianSum(_, _, _, _, _)
JacobianSum(jacobian, error_right, length, jacobian_col, jacobian_row) ==
    IF jacobian_row >= length THEN 0
    ELSE MulFixed(jacobian[jacobian_row * length + jacobian_col], error_right[jacobian_row])
         + JacobianSum(jacobian, error_right, length, jacobian_col, jacobian_row + 1)

\* C24: after petal_backward on a Dense-1D petal with softmax, output[c] is the
\* sum over r of J[r][c] * error_right[r] for every c below the length, J being
\* the Jacobian activation_backward wrote, and no element of J was read after a
\* store to it
C24_SoftmaxDotUsesTheFullJacobian ==
    (sx_last.op = "petal_backward" /\ sx_petal.error_code = ERROR_NONE)
    => /\ \A jacobian_col \in 0 .. (sx_petal.length - 1) :
              sx_petal.output[jacobian_col] =
                  JacobianSum(sx_last.jacobian, sx_last.error_right, sx_petal.length, jacobian_col, 0)
       /\ sx_last.read_after_write = 0

\* a backward pass of a petal of two outputs or more in which a row of the
\* Jacobian below the first contributes to the dot
C24_Witness ==
    /\ sx_last.op = "petal_backward"
    /\ sx_petal.error_code = ERROR_NONE
    /\ sx_petal.length >= 2
    /\ \E jacobian_col \in 0 .. (sx_petal.length - 1) :
           sx_petal.output[jacobian_col] #
               MulFixed(sx_last.jacobian[jacobian_col], sx_last.error_right[0])
====
